---- MODULE Spec2Model ----
(***************************************************************************)
(* Model of the create-cloud-deploy-release GitHub Action:                 *)
(*   - parseCreateReleaseResponse (output-parser.ts), the parser of the    *)
(*     gcloud response;                                                    *)
(*   - run() (main.ts), the orchestrator: input reading, validation,       *)
(*     command assembly, tool resolution, authentication, execution,       *)
(*     parsing and output publication.                                     *)
(*                                                                         *)
(* Text model.  A JavaScript string is a sequence of atoms.  An atom is a  *)
(* TLA+ string that stands for a run of characters holding no delimiter;   *)
(* every delimiter the code looks at ("/", whitespace, the JSON            *)
(* punctuation, "=", ",") is an atom of its own.  Concatenation is \o,     *)
(* String.split is Split, String.trim is Trim, JSON.parse is JSONParse.    *)
(***************************************************************************)
EXTENDS Integers, Sequences, FiniteSets, TLC

VARIABLES
  world,      \* run(): the inputs of the step and what the collaborators will answer
  pc,         \* run(): the position in run()
  cmd,        \* run(): the argument list under construction
  flagList,   \* run(): the tokens parseFlags gave for the flags input
  gcloudVersionRequired,  \* run(): the version to install or look up
  output,     \* run(): what getExecOutput resolved to
  outputs,    \* run(): what parseCreateReleaseResponse returned
  err,        \* run(): the message of the error being thrown to the catch block
  rejecting,  \* run(): an error thrown by the catch block is leaving run()
  calls,      \* run(): the collaborator calls made so far, in order
  processEnv, \* run(): the two telemetry markers in process.env
  savedEnv,   \* run(): the values stubEnv keeps for restoreEnv
  pStdout,    \* parser harness: the argument of parseCreateReleaseResponse
  pOutcome,   \* parser harness: what the call returned or threw
  pCalled,    \* parser harness: whether the call has been made
  invocations, \* overlapping runs: the position and the kept values of each run()
  pending     \* awaited calls: the steps whose call was made, and the calls not yet settled

runVars ==
  <<world, pc, cmd, flagList, gcloudVersionRequired, output, outputs, err,
    rejecting, calls, processEnv, savedEnv>>
parserVars == <<pStdout, pOutcome, pCalled>>
otherVars == <<parserVars, invocations, pending>>
vars == <<runVars, otherVars>>

----------------------------------------------------------------------------
(* Strings *)

WS == " "
QUOTE == "\""
SLASH == "/"

\* string | undefined
Undefined == [def |-> FALSE, text |-> <<>>]
Str(t) == [def |-> TRUE, text |-> t]

\* index of the first non-whitespace atom at or after i (Len(t)+1 if none)
SkipWs(t, i) ==
  CHOOSE j \in i..(Len(t) + 1) :
    /\ \A k \in i..(j - 1) : t[k] = WS
    /\ (j = Len(t) + 1 \/ t[j] # WS)

\* String.prototype.trim
Trim(t) ==
  LET first == SkipWs(t, 1)
  IN IF first > Len(t) THEN <<>>
     ELSE LET last == CHOOSE j \in first..Len(t) :
                        t[j] # WS /\ \A k \in (j + 1)..Len(t) : t[k] = WS
          IN SubSeq(t, first, last)

\* actions-utils presence(): (input || '').trim() || undefined
presence(input) ==
  LET trimmed == Trim(IF input.def THEN input.text ELSE <<>>)
  IN IF trimmed = <<>> THEN Undefined ELSE Str(trimmed)

\* String.prototype.split(sep) for a one-atom separator
Split(t, sep) ==
  LET seps == {i \in 1..Len(t) : t[i] = sep}
      n == Cardinality(seps) + 1
      \* position of the k-th separator; 0 and Len(t)+1 bracket the string
      pos(k) == IF k = 0 THEN 0
                ELSE IF k = n THEN Len(t) + 1
                ELSE CHOOSE i \in seps : Cardinality({j \in seps : j < i}) = k - 1
  IN [k \in 1..n |-> SubSeq(t, pos(k - 1) + 1, pos(k) - 1)]

\* msg.includes(sub)
Contains(msg, sub) ==
  \E i \in 0..(Len(msg) - Len(sub)) : SubSeq(msg, i + 1, i + Len(sub)) = sub

\* template-literal rendering of a string | undefined
ToStr(s) == IF s.def THEN s.text ELSE <<"undefined">>

----------------------------------------------------------------------------
(* JSON values and JSON.parse *)

\* A JavaScript value as JSON.parse produces it.  type is one of
\* "undefined", "null", "bool", "num", "str", "arr", "obj"; str holds the
\* atoms of a string, number or boolean; elems holds the elements of an
\* array or the [key, val] members of an object, in source order.
JVal(type, str, elems) == [type |-> type, str |-> str, elems |-> elems]
JUndefined == JVal("undefined", <<>>, <<>>)
JNull == JVal("null", <<>>, <<>>)
JBool(a) == JVal("bool", <<a>>, <<>>)
JNum(a) == JVal("num", <<a>>, <<>>)
JStr(t) == JVal("str", t, <<>>)
JArr(elems) == JVal("arr", <<>>, elems)
JObj(members) == JVal("obj", <<>>, members)
Member(key, val) == [key |-> key, val |-> val]

NumberAtoms == {"0", "5"}
BoolAtoms == {"true", "false"}

JFail == [ok |-> FALSE, val |-> JUndefined, next |-> 0]
JOk(val, next) == [ok |-> TRUE, val |-> val, next |-> next]

\* a string literal starting at the quote t[i]
ParseString(t, i) ==
  LET closing == {j \in (i + 1)..Len(t) : t[j] = QUOTE}
  IN IF closing = {} THEN JFail
     ELSE LET j == CHOOSE c \in closing : \A d \in closing : c <= d
          IN JOk(JStr(SubSeq(t, i + 1, j - 1)), j + 1)

RECURSIVE ParseValue(_, _)
RECURSIVE ParseElements(_, _, _)
RECURSIVE ParseMembers(_, _, _)

\* one JSON value starting at or after index i0 (leading whitespace skipped)
ParseValue(t, i0) ==
  LET i == SkipWs(t, i0)
  IN IF i > Len(t) THEN JFail
     ELSE IF t[i] = "null" THEN JOk(JNull, i + 1)
     ELSE IF t[i] \in BoolAtoms THEN JOk(JBool(t[i]), i + 1)
     ELSE IF t[i] \in NumberAtoms THEN JOk(JNum(t[i]), i + 1)
     ELSE IF t[i] = QUOTE THEN ParseString(t, i)
     ELSE IF t[i] = "[" THEN
       LET j == SkipWs(t, i + 1)
       IN IF j <= Len(t) /\ t[j] = "]" THEN JOk(JArr(<<>>), j + 1)
          ELSE ParseElements(t, i + 1, <<>>)
     ELSE IF t[i] = "{" THEN
       LET j == SkipWs(t, i + 1)
       IN IF j <= Len(t) /\ t[j] = "}" THEN JOk(JObj(<<>>), j + 1)
          ELSE ParseMembers(t, i + 1, <<>>)
     ELSE JFail

\* value ("," value)* "]"
ParseElements(t, i, acc) ==
  LET v == ParseValue(t, i)
  IN IF ~v.ok THEN JFail
     ELSE LET j == SkipWs(t, v.next)
          IN IF j > Len(t) THEN JFail
             ELSE IF t[j] = "," THEN ParseElements(t, j + 1, Append(acc, v.val))
             ELSE IF t[j] = "]" THEN JOk(JArr(Append(acc, v.val)), j + 1)
             ELSE JFail

\* string ":" value ("," string ":" value)* "}"
ParseMembers(t, i0, acc) ==
  LET i == SkipWs(t, i0)
  IN IF i > Len(t) \/ t[i] # QUOTE THEN JFail
     ELSE LET k == ParseString(t, i)
          IN IF ~k.ok THEN JFail
             ELSE LET c == SkipWs(t, k.next)
                  IN IF c > Len(t) \/ t[c] # ":" THEN JFail
                     ELSE LET v == ParseValue(t, c + 1)
                          IN IF ~v.ok THEN JFail
                             ELSE LET j == SkipWs(t, v.next)
                                      m == Append(acc, Member(k.val.str, v.val))
                                  IN IF j > Len(t) THEN JFail
                                     ELSE IF t[j] = "," THEN ParseMembers(t, j + 1, m)
                                     ELSE IF t[j] = "}" THEN JOk(JObj(m), j + 1)
                                     ELSE JFail

\* JSON.parse: one value, then nothing but whitespace; ok = FALSE is a SyntaxError
JSONParse(t) ==
  LET v == ParseValue(t, 1)
  IN IF v.ok /\ SkipWs(t, v.next) > Len(t) THEN v ELSE JFail

\* Array.isArray
IsArray(v) == v.type = "arr"

\* v[0] of an array
Index0(v) == IF Len(v.elems) = 0 THEN JUndefined ELSE v.elems[1]

\* v.name of a value that is neither null nor undefined: the last member so
\* named of an object (JSON.parse keeps the last duplicate), undefined otherwise
GetProp(v, key) ==
  IF v.type # "obj" THEN JUndefined
  ELSE LET hits == {i \in 1..Len(v.elems) : v.elems[i].key = key}
       IN IF hits = {} THEN JUndefined
          ELSE v.elems[CHOOSE i \in hits : \A h \in hits : h <= i].val

\* JavaScript truthiness
Truthy(v) ==
  CASE v.type \in {"undefined", "null"} -> FALSE
    [] v.type = "bool" -> v.str = <<"true">>
    [] v.type = "num" -> v.str # <<"0">>
    [] v.type = "str" -> v.str # <<>>
    [] OTHER -> TRUE

----------------------------------------------------------------------------
(* output-parser.ts *)

RELEASE_NAME_NUM_FIELDS == 8

linkPrefix == <<"https://console.cloud.google.com/deploy/delivery-pipelines">>

MsgNoOutput == <<"no output from create release command">>
MsgNoName == <<"couldn't parse release name">>
MsgUnexpectedFormat == <<", unexpected format: ">>
MsgParseWrap == <<"failed to parse create release response: ">>
\* the messages of the errors the JavaScript runtime throws
MsgSyntaxError == <<"Unexpected token, not valid JSON">>
MsgReadOfNullish == <<"Cannot read properties of undefined or null (reading 'name')">>
MsgSplitNotFunction == <<"name.split is not a function">>

\* the lower-case form of the first letter of an atom, for the atoms that
\* start a message with a capital
LowerFirstAtom(a) ==
  CASE a = "Unexpected token, not valid JSON" -> "unexpected token, not valid JSON"
    [] a = "Cannot read properties of undefined or null (reading 'name')" ->
         "cannot read properties of undefined or null (reading 'name')"
    [] a = "No release name set." -> "no release name set."
    [] a = "No delivery pipeline set." -> "no delivery pipeline set."
    [] a = "One of 'build_artifacts' and 'images' inputs must be supplied." ->
         "one of 'build_artifacts' and 'images' inputs must be supplied."
    [] a = "Both 'build_artifacts' and 'images' inputs set - please select only one." ->
         "both 'build_artifacts' and 'images' inputs set - please select only one."
    [] a = "Failed to parse KEY=VALUE pair: " -> "failed to parse KEY=VALUE pair: "
    [] a = "Input does not meet YAML 1.2 Core Schema specification: " ->
         "input does not meet YAML 1.2 Core Schema specification: "
    [] OTHER -> a

\* a plausible slip of errorMessage: the message of the error as it is
errorMessageAsIs(msg) == msg

\* actions-utils errorMessage(err): the message of the error with its first
\* character in lower case (the unit test of the parser expects
\* 'unexpected token ...' where the SyntaxError of the runtime says
\* 'Unexpected token ...').  Atoms write the back quotes of the messages
\* as single quotes.
errorMessage(msg) ==
  IF msg = <<>> THEN <<>> ELSE <<LowerFirstAtom(msg[1])>> \o Tail(msg)

\* What a call gives: a thrown Error with message msg, or the returned
\* CreateCloudDeployReleaseOutputs object with the keys it holds.
Throw(msg) == [threw |-> TRUE, msg |-> msg, keys |-> {}, name |-> <<>>, link |-> <<>>]
Return(keys, name, link) ==
  [threw |-> FALSE, msg |-> <<>>, keys |-> keys, name |-> name, link |-> link]
NoOutcome == Return({}, <<>>, <<>>)

\* a plausible slip of LinkOf: project and location taken from each other's field
LinkOfSwapped(nameSplit) ==
  linkPrefix \o <<SLASH>> \o nameSplit[2] \o <<SLASH>> \o nameSplit[6]
    \o <<SLASH, "releases", SLASH>> \o nameSplit[8]
    \o <<"?project=">> \o nameSplit[4]

\* the link of a split release name
LinkOf(nameSplit) ==
  linkPrefix \o <<SLASH>> \o nameSplit[4] \o <<SLASH>> \o nameSplit[6]
    \o <<SLASH, "releases", SLASH>> \o nameSplit[8]
    \o <<"?project=">> \o nameSplit[2]

\* a plausible slip of ReleaseElement: the last element of an array
ReleaseElementLast(outputJSON) ==
  IF IsArray(outputJSON)
  THEN (IF Len(outputJSON.elems) = 0 THEN JUndefined
        ELSE outputJSON.elems[Len(outputJSON.elems)])
  ELSE outputJSON

\* the release element of the parsed output: element 0 of an array, or the value
ReleaseElement(outputJSON) ==
  IF IsArray(outputJSON) THEN Index0(outputJSON) ELSE outputJSON

\* a plausible slip of IsNoOutput: the literal forms forgotten
IsNoOutputBlankOnly(stdout) == ~stdout.def

\* !stdout || stdout === '{}' || stdout === '[]'
IsNoOutput(stdout) ==
  ~stdout.def \/ stdout.text = <<"{", "}">> \/ stdout.text = <<"[", "]">>

\* a plausible slip of UnexpectedFormat: only too few fields refused
UnexpectedFormatTooFew(nameSplit) == Len(nameSplit) < RELEASE_NAME_NUM_FIELDS

\* nameSplit.length != RELEASE_NAME_NUM_FIELDS
UnexpectedFormat(nameSplit) == Len(nameSplit) # RELEASE_NAME_NUM_FIELDS

\* a plausible slip of MakeOutputs: the link left out of the object
MakeOutputsNoLink(name, link) == Return({"name"}, name, <<>>)

\* { name: name, link: link }
MakeOutputs(name, link) == Return({"name", "link"}, name, link)

\* the body of the try block, given the stdout presence() returned
ParseTry(stdout) ==
  IF IsNoOutput(stdout)
  THEN Throw(MsgNoOutput)
  ELSE
    LET parsed == JSONParse(stdout.text)
    IN IF ~parsed.ok THEN Throw(MsgSyntaxError)
       ELSE
         LET release == ReleaseElement(parsed.val)
         IN IF release.type \in {"undefined", "null"} THEN Throw(MsgReadOfNullish)
            ELSE
              LET name == GetProp(release, <<"name">>)
              IN IF ~Truthy(name) THEN Throw(MsgNoName)
                 ELSE IF name.type # "str" THEN Throw(MsgSplitNotFunction)
                 ELSE
                   LET nameSplit == Split(name.str, SLASH)
                   IN IF UnexpectedFormat(nameSplit)
                      THEN Throw(MsgNoName \o MsgUnexpectedFormat \o name.str)
                      ELSE MakeOutputs(name.str, LinkOf(nameSplit))

parseCreateReleaseResponse(stdoutArg) ==
  LET stdout == presence(stdoutArg)
      tried == ParseTry(stdout)
  IN IF tried.threw
     THEN Throw(MsgParseWrap \o errorMessage(tried.msg) \o <<", stdout: ">> \o ToStr(stdout))
     ELSE tried

----------------------------------------------------------------------------
(* Parser harness: parseCreateReleaseResponse applied to one stdout *)

\* largest number of "/"-delimited fields of a generated release name
MaxNameFields == 9

CanonFields ==
  << <<"projects">>, <<"P">>, <<"locations">>, <<"L">>,
     <<"deliveryPipelines">>, <<"D">>, <<"releases">>, <<"R">> >>
AltField == <<"dummy", "-", "app">>

RECURSIVE Join(_, _)
\* Array.prototype.join
Join(fields, sep) ==
  IF Len(fields) = 0 THEN <<>>
  ELSE IF Len(fields) = 1 THEN fields[1]
  ELSE fields[1] \o sep \o Join(Tail(fields), sep)

\* the field sequences of n fields: each field the documented one or another text
FieldSeqs(n) ==
  {[i \in 1..n |-> IF i \in alt THEN AltField
                   ELSE IF i <= Len(CanonFields) THEN CanonFields[i] ELSE <<"x">>]
     : alt \in SUBSET (1..n)}

CanonName == Join(CanonFields, <<SLASH>>)

Names ==
  {Join(f, <<SLASH>>) : f \in UNION {FieldSeqs(n) : n \in 1..MaxNameFields}}
    \cup {<<>>,
          Join([CanonFields EXCEPT ![2] = <<>>], <<SLASH>>),
          Join([CanonFields EXCEPT ![8] = <<>>], <<SLASH>>),
          Join(SubSeq(CanonFields, 1, 7), <<SLASH>>) \o <<SLASH>>}

NameKey == <<"name">>
RelObj(name) == JObj(<<Member(NameKey, JStr(name))>>)
Etag == Member(<<"etag">>, JStr(<<"97c3920b5a514d1e">>))

\* release elements: objects with a name, and the odd ones
ReleaseValues ==
  {RelObj(n) : n \in Names}
    \cup {JObj(<<Etag, Member(NameKey, JStr(CanonName))>>),
          JObj(<<Member(NameKey, JStr(CanonName)), Etag>>),
          JObj(<<Member(NameKey, JStr(<<"a">>)), Member(NameKey, JStr(CanonName))>>),
          JObj(<<Member(NameKey, JStr(CanonName)), Member(NameKey, JNull)>>),
          JObj(<<Etag>>),
          JObj(<<>>),
          JObj(<<Member(NameKey, JNull)>>),
          JObj(<<Member(NameKey, JNum("5"))>>),
          JObj(<<Member(NameKey, JNum("0"))>>),
          JObj(<<Member(NameKey, JBool("true"))>>),
          JObj(<<Member(NameKey, JObj(<<>>))>>),
          JObj(<<Member(NameKey, JArr(<<JStr(CanonName)>>))>>)}

\* what gcloud may report after the release: a rollout, or anything else
Rollout == JObj(<<Member(NameKey, JStr(CanonName \o <<SLASH, "rollouts", SLASH, "r1">>))>>)
SecondValues == {Rollout, JNull, JStr(CanonName)}

\* top-level values that hold no release object
OtherValues ==
  {JNull, JNum("5"), JStr(CanonName), JArr(<<>>), JArr(<<JNull>>),
   JArr(<<JArr(<<>>)>>), JArr(<<JStr(CanonName)>>), JArr(<<JNull, RelObj(CanonName)>>)}

RECURSIVE Render(_, _)
RECURSIVE RenderElems(_, _, _)
RECURSIVE RenderMembers(_, _, _)

\* JSON text of a value, sp being the whitespace written between tokens
Render(v, sp) ==
  CASE v.type = "null" -> <<"null">>
    [] v.type \in {"bool", "num"} -> v.str
    [] v.type = "str" -> <<QUOTE>> \o v.str \o <<QUOTE>>
    [] v.type = "arr" ->
         IF Len(v.elems) = 0 THEN <<"[", "]">>
         ELSE <<"[">> \o sp \o RenderElems(v.elems, 1, sp) \o sp \o <<"]">>
    [] v.type = "obj" ->
         IF Len(v.elems) = 0 THEN <<"{", "}">>
         ELSE <<"{">> \o sp \o RenderMembers(v.elems, 1, sp) \o sp \o <<"}">>

RenderElems(elems, i, sp) ==
  Render(elems[i], sp)
    \o (IF i = Len(elems) THEN <<>> ELSE <<",">> \o sp \o RenderElems(elems, i + 1, sp))

RenderMembers(members, i, sp) ==
  <<QUOTE>> \o members[i].key \o <<QUOTE, ":">> \o sp \o Render(members[i].val, sp)
    \o (IF i = Len(members) THEN <<>>
        ELSE <<",">> \o sp \o RenderMembers(members, i + 1, sp))

\* the two layouts: JSON.stringify's, and gcloud's indented one
Compact(v) == Render(v, <<>>)
Pretty(v) == <<WS>> \o Render(v, <<WS>>) \o <<WS, WS>>

JsonValues ==
  ReleaseValues \cup OtherValues
    \cup {JArr(<<r>>) : r \in ReleaseValues}
    \cup {JArr(<<r, x>>) : r \in ReleaseValues, x \in SecondValues}

\* texts that are no rendering of a value
RawTexts ==
  {<<>>, <<WS>>, <<WS, WS>>, <<WS, "{", "}", WS>>, <<"[", "]", WS>>,
   <<"{", WS, "}">>, <<"[", WS, "]">>, <<"Some text to fail">>,
   <<"{">>, <<"[", "{", "}">>, <<"{", "}", "{", "}">>, <<"{", QUOTE, "name", QUOTE, "}">>,
   <<"[", "{", "}", ",", "]">>, <<QUOTE, "name">>}

StdoutValues ==
  {Undefined}
    \cup {Str(Compact(v)) : v \in JsonValues}
    \cup {Str(Pretty(v)) : v \in JsonValues}
    \cup {Str(t) : t \in RawTexts}

----------------------------------------------------------------------------
(* Collaborators of run(): @actions/core and actions-utils helpers *)

\* a one-atom text
T(a) == <<a>>

\* key=value input text: pieces separated by ",", key and value by the first "="
EQ == "="
COMMA == ","

MsgKVMissingEq == <<"Failed to parse KEY=VALUE pair: ", "missing =">>
MsgKVNoKey == <<"Failed to parse KEY=VALUE pair: ", "no key">>
MsgNotBoolean == <<"Input does not meet YAML 1.2 Core Schema specification: ">>

\* index of the first "=" of a piece, 0 if none
FirstEq(piece) ==
  LET eqs == {i \in 1..Len(piece) : piece[i] = EQ}
  IN IF eqs = {} THEN 0 ELSE CHOOSE i \in eqs : \A j \in eqs : i <= j

\* a mapping is a sequence of [k, v] entries with distinct keys, in insertion
\* order; setting a key that is present replaces its value in place
MapSet(m, k, v) ==
  IF \E i \in 1..Len(m) : m[i].k = k
  THEN [i \in 1..Len(m) |-> IF m[i].k = k THEN [k |-> k, v |-> v] ELSE m[i]]
  ELSE Append(m, [k |-> k, v |-> v])

RECURSIVE MapAssign(_, _)
\* Object.assign(target, source)
MapAssign(target, source) ==
  IF Len(source) = 0 THEN target
  ELSE MapAssign(MapSet(target, source[1].k, source[1].v), Tail(source))

RECURSIVE KVPieces(_, _)
\* the mapping of the pieces, given the mapping so far
KVPieces(pieces, acc) ==
  IF Len(pieces) = 0 THEN acc
  ELSE LET piece == pieces[1]
           e == FirstEq(piece)
       IN KVPieces(Tail(pieces),
                   MapSet(acc, SubSeq(piece, 1, e - 1), SubSeq(piece, e + 1, Len(piece))))

\* actions-utils parseKVString: [ok, msg, map]; empty input is the empty mapping
parseKVString(input) ==
  LET text == Trim(input)
      pieces == Split(text, COMMA)
  IN IF text = <<>> THEN [ok |-> TRUE, msg |-> <<>>, map |-> <<>>]
     ELSE IF \E i \in 1..Len(pieces) : FirstEq(pieces[i]) = 0
     THEN [ok |-> FALSE, msg |-> MsgKVMissingEq, map |-> <<>>]
     ELSE IF \E i \in 1..Len(pieces) : FirstEq(pieces[i]) = 1
     THEN [ok |-> FALSE, msg |-> MsgKVNoKey, map |-> <<>>]
     ELSE [ok |-> TRUE, msg |-> <<>>, map |-> KVPieces(pieces, <<>>)]

RECURSIVE joinKVString(_)
\* actions-utils joinKVString: k=v entries joined by ","
joinKVString(m) ==
  IF Len(m) = 0 THEN <<>>
  ELSE m[1].k \o <<EQ>> \o m[1].v
         \o (IF Len(m) = 1 THEN <<>> ELSE <<COMMA>> \o joinKVString(Tail(m)))

\* @actions/core getBooleanInput: [ok, msg, value]
getBooleanInput(input) ==
  IF input \in {T("true"), T("True"), T("TRUE")}
  THEN [ok |-> TRUE, msg |-> <<>>, value |-> TRUE]
  ELSE IF input \in {T("false"), T("False"), T("FALSE")}
  THEN [ok |-> TRUE, msg |-> <<>>, value |-> FALSE]
  ELSE [ok |-> FALSE, msg |-> MsgNotBoolean \o T("disable_initial_rollout"), value |-> FALSE]

RECURSIVE DropEmpty(_)
DropEmpty(texts) ==
  IF Len(texts) = 0 THEN <<>>
  ELSE (IF texts[1] = <<>> THEN <<>> ELSE <<texts[1]>>) \o DropEmpty(Tail(texts))

\* actions-utils parseFlags: the tokens of a flag string, --flag=value and
\* --flag value both giving the two tokens --flag, value
parseFlags(input) ==
  DropEmpty(Split([i \in 1..Len(input) |-> IF input[i] = EQ THEN WS ELSE input[i]], WS))

----------------------------------------------------------------------------
(* utils.ts *)

\* process.env of the CI context
GITHUB_SERVER_URL == <<"https:", SLASH, SLASH, "github.com">>
GITHUB_REPOSITORY == <<"test-org", SLASH, "test-repo">>
GITHUB_SHA == <<"abcdef123456">>

getDefaultAnnotations ==
  << [k |-> T("commit"),
      v |-> GITHUB_SERVER_URL \o <<SLASH>> \o GITHUB_REPOSITORY
              \o <<SLASH, "commit", SLASH>> \o GITHUB_SHA],
     [k |-> T("git-sha"), v |-> GITHUB_SHA] >>

getDefaultLabels == << [k |-> T("managed-by"), v |-> T("github-actions")] >>

----------------------------------------------------------------------------
(* main.ts: the inputs of run() and the answers of its collaborators *)

\* largest number of fields in which a scenario differs from the baseline
MaxDeviations == 2

ValidStdout == Compact(JArr(<<RelObj(CanonName), Rollout>>))

\* what the subprocess may write to its standard output
ExecStdouts ==
  {ValidStdout,
   Pretty(JObj(<<Etag, Member(NameKey, JStr(CanonName))>>)),
   <<>>, <<WS>>, <<"{", "}">>, <<WS, "{", "}", WS>>, <<"[", "]">>, <<"[", "]", WS>>,
   <<"[", WS, "]">>, <<"Some text to fail">>,
   Compact(RelObj(<<>>)),
   Compact(JObj(<<Etag>>)),
   Compact(JArr(<<JNull>>)),
   Compact(RelObj(Join(SubSeq(CanonFields, 1, 7), <<SLASH>>))),
   Compact(RelObj(Join([i \in 1..8 |-> AltField], <<SLASH>>)))}

KVTexts ==
  {<<>>,
   <<"key1", EQ, "value1">>,
   <<"key1", EQ, "value1", COMMA, "Key2", EQ, "Value2">>,
   <<"key1", EQ, "a", COMMA, "key1", EQ, "b">>,
   <<"malformed">>}

\* the scenario of the unit tests: valid inputs, gcloud cached, no credentials
BaseWorld ==
  [name |-> T("release-001"),
   delivery_pipeline |-> T("delivery-pipeline"),
   source |-> T("src"),
   build_artifacts |-> T("artifacts.json"),
   images |-> <<>>,
   project_id |-> <<>>,
   region |-> T("us-central1"),
   disable_initial_rollout |-> T("false"),
   gcs_source_staging_dir |-> <<>>,
   skaffold_file |-> <<>>,
   annotations |-> <<>>,
   labels |-> <<>>,
   description |-> <<>>,
   deploy_parameters |-> <<>>,
   flags |-> <<>>,
   gcloud_component |-> <<>>,
   gcloud_version |-> <<>>,
   pinnedToHead |-> FALSE,
   markersBefore |-> Undefined,
   latestThrows |-> FALSE,
   isInstalled |-> TRUE,
   installThrows |-> FALSE,
   componentThrows |-> FALSE,
   credFile |-> <<>>,
   authThrows |-> FALSE,
   execThrows |-> FALSE,
   exitCode |-> 0,
   stdout |-> ValidStdout,
   stderr |-> <<>>,
   setFailedThrows |-> FALSE,
   warningThrows |-> FALSE]

\* the values each field of a scenario may take
WorldDomain ==
  [name |-> {<<>>, T("release-001")},
   delivery_pipeline |-> {<<>>, T("delivery-pipeline")},
   source |-> {<<>>, T("src")},
   build_artifacts |-> {<<>>, T("artifacts.json")},
   images |-> KVTexts,
   project_id |-> {<<>>, T("my-test-project")},
   region |-> {<<>>, T("us-central1")},
   disable_initial_rollout |-> {T("false"), T("true"), T("maybe")},
   gcs_source_staging_dir |-> {<<>>, <<"source", SLASH, "path">>},
   skaffold_file |-> {<<>>, T("skaffold.yaml")},
   annotations |-> KVTexts \cup {<<"commit", EQ, "mine">>},
   labels |-> KVTexts \cup {<<"managed-by", EQ, "Me">>},
   description |-> {<<>>, T("My description")},
   deploy_parameters |-> KVTexts,
   flags |-> {<<>>, <<"--flag1", EQ, "value1", WS, "--flag2", WS, "value2">>,
              <<"--images", EQ, "x", WS, "--format", EQ, "yaml">>,
              <<"--disable-initial-rollout">>},
   gcloud_component |-> {<<>>, T("alpha"), T("beta"), T("wrong_value")},
   gcloud_version |-> {<<>>, T("latest"), T("1.2.3")},
   pinnedToHead |-> BOOLEAN,
   markersBefore |-> {Undefined, Str(T("preset"))},
   latestThrows |-> BOOLEAN,
   isInstalled |-> BOOLEAN,
   installThrows |-> BOOLEAN,
   componentThrows |-> BOOLEAN,
   credFile |-> {<<>>, T("creds.json")},
   authThrows |-> BOOLEAN,
   execThrows |-> BOOLEAN,
   exitCode |-> {0, 1},
   stdout |-> ExecStdouts,
   stderr |-> {<<>>, T("permission denied")},
   setFailedThrows |-> BOOLEAN,
   warningThrows |-> BOOLEAN]

\* the fields of a scenario, in a fixed order, warningThrows last
FieldNames ==
  <<"name", "delivery_pipeline", "source", "build_artifacts", "images", "project_id",
    "region", "disable_initial_rollout", "gcs_source_staging_dir", "skaffold_file",
    "annotations", "labels", "description", "deploy_parameters", "flags",
    "gcloud_component", "gcloud_version", "pinnedToHead", "markersBefore",
    "latestThrows", "isInstalled", "installThrows", "componentThrows", "credFile",
    "authThrows", "execThrows", "exitCode", "stdout", "stderr", "setFailedThrows",
    "warningThrows">>

RECURSIVE FieldChoices(_, _, _)
\* the choices of at most k of the fields i, ..., n, as increasing sequences
\* of positions in FieldNames
FieldChoices(i, n, k) ==
  IF k = 0 \/ i > n THEN {<<>>}
  ELSE FieldChoices(i + 1, n, k)
         \cup {<<i>> \o rest : rest \in FieldChoices(i + 1, n, k - 1)}

RECURSIVE Deviate(_, _)
\* the scenarios that differ from w in exactly the chosen fields
Deviate(w, chosen) ==
  IF chosen = <<>> THEN {w}
  ELSE LET f == FieldNames[chosen[1]]
       IN UNION {Deviate([w EXCEPT ![f] = v], Tail(chosen))
                   : v \in WorldDomain[f] \ {BaseWorld[f]}}

----------------------------------------------------------------------------
(* main.ts: run() *)

NoOutput == [exitCode |-> 0, stdout |-> <<>>, stderr |-> <<>>]
NoPending == [issued |-> {}, outstanding |-> {}]
Call(fn, args) == [fn |-> fn, args |-> args]

MARKERS == {"CLOUDSDK_METRICS_ENVIRONMENT", "CLOUDSDK_METRICS_ENVIRONMENT_VERSION"}
appVersion == T("1.1.2")
toolCommand == T("gcloud")
latestVersion == T("999.0.0")

MsgNoReleaseName == T("No release name set.")
MsgNoDeliveryPipeline == T("No delivery pipeline set.")
MsgNeither == T("One of 'build_artifacts' and 'images' inputs must be supplied.")
MsgBoth == T("Both 'build_artifacts' and 'images' inputs set - please select only one.")
MsgInvalidComponent == T("invalid input received for gcloud_component: ")
MsgExecFailed == T("failed to execute gcloud command ")
MsgFailedWith == T("create-cloud-deploy-release failed with: ")
MsgCollaborator == T("collaborator failed: ")

\* the inputs as run() holds them after reading
Images(w) == parseKVString(w.images)
Annotations(w) == parseKVString(w.annotations)
Labels(w) == parseKVString(w.labels)
DeployParameters(w) == parseKVString(w.deploy_parameters)
DisableInitialRollout(w) == getBooleanInput(w.disable_initial_rollout)
GcloudComponent(w) == presence(Str(w.gcloud_component))

\* the error thrown while the inputs are read (lines 78-96, in source order),
\* <<>> if none
InputError(w) ==
  IF ~Images(w).ok THEN Images(w).msg
  ELSE IF ~DisableInitialRollout(w).ok THEN DisableInitialRollout(w).msg
  ELSE IF ~Annotations(w).ok THEN Annotations(w).msg
  ELSE IF ~Labels(w).ok THEN Labels(w).msg
  ELSE IF ~DeployParameters(w).ok THEN DeployParameters(w).msg
  ELSE <<>>

\* !buildArtifacts && !Object.keys(images)?.length
NeitherSupplied(buildArtifacts, images) == buildArtifacts = <<>> /\ Len(images) = 0

\* a plausible slip of BothSupplied: the check left out
BothSuppliedUnchecked(buildArtifacts, images) == FALSE

\* buildArtifacts && Object.keys(images)?.length
BothSupplied(buildArtifacts, images) == buildArtifacts # <<>> /\ Len(images) # 0

\* gcloudComponent && gcloudComponent !== 'alpha' && gcloudComponent !== 'beta'
InvalidComponent(component) ==
  component.def /\ component.text # T("alpha") /\ component.text # T("beta")

\* a plausible slip of ValidationError: the delivery pipeline checked first
ValidationErrorPipelineFirst(w) ==
  IF w.delivery_pipeline = <<>> THEN MsgNoDeliveryPipeline
  ELSE IF w.name = <<>> THEN MsgNoReleaseName
  ELSE IF NeitherSupplied(w.build_artifacts, Images(w).map) THEN MsgNeither
  ELSE IF BothSupplied(w.build_artifacts, Images(w).map) THEN MsgBoth
  ELSE IF InvalidComponent(GcloudComponent(w))
  THEN MsgInvalidComponent \o GcloudComponent(w).text
  ELSE <<>>

\* the error thrown by the checks of lines 99-115, <<>> if none
ValidationError(w) ==
  IF w.name = <<>> THEN MsgNoReleaseName
  ELSE IF w.delivery_pipeline = <<>> THEN MsgNoDeliveryPipeline
  ELSE IF NeitherSupplied(w.build_artifacts, Images(w).map) THEN MsgNeither
  ELSE IF BothSupplied(w.build_artifacts, Images(w).map) THEN MsgBoth
  ELSE IF InvalidComponent(GcloudComponent(w))
  THEN MsgInvalidComponent \o GcloudComponent(w).text
  ELSE <<>>

\* a plausible slip of PushIf: the condition left out
PushAlways(cond, tokens) == tokens

\* cmd.push(...) under a condition
PushIf(cond, tokens) == IF cond THEN tokens ELSE <<>>

\* a plausible slip of allAnnotations: the defaults assigned last
allAnnotationsUserFirst(w) == MapAssign(Annotations(w).map, getDefaultAnnotations)

\* line 154: Object.assign({}, getDefaultAnnotations(), annotations)
allAnnotations(w) == MapAssign(getDefaultAnnotations, Annotations(w).map)

\* a plausible slip of allLabels: the two lists of pairs put end to end
allLabelsConcat(w) == getDefaultLabels \o Labels(w).map

\* line 157: Object.assign({}, getDefaultLabels(), labels)
allLabels(w) == MapAssign(getDefaultLabels, Labels(w).map)

\* the tokens run() builds before the extra flags (lines 118-162)
BuilderTokens(w) ==
  <<T("deploy"), T("releases"), T("create"), w.name,
    T("--delivery-pipeline"), w.delivery_pipeline>>
    \o PushIf(w.project_id # <<>>, <<T("--project"), w.project_id>>)
    \o PushIf(w.region # <<>>, <<T("--region"), w.region>>)
    \o PushIf(w.build_artifacts # <<>>, <<T("--build-artifacts"), w.build_artifacts>>)
    \o PushIf(Len(Images(w).map) > 0, <<T("--images"), joinKVString(Images(w).map)>>)
    \o PushIf(w.source # <<>>, <<T("--source"), w.source>>)
    \o PushIf(DisableInitialRollout(w).value, <<T("--disable-initial-rollout")>>)
    \o PushIf(w.gcs_source_staging_dir # <<>>,
              <<T("--gcs-source-staging-dir"), w.gcs_source_staging_dir>>)
    \o PushIf(w.skaffold_file # <<>>, <<T("--skaffold-file"), w.skaffold_file>>)
    \o PushIf(Len(DeployParameters(w).map) > 0,
              <<T("--deploy-parameters"), joinKVString(DeployParameters(w).map)>>)
    \o <<T("--annotations"), joinKVString(allAnnotations(w))>>
    \o <<T("--labels"), joinKVString(allLabels(w))>>
    \o PushIf(w.description # <<>>, <<T("--description"), w.description>>)

\* throw err: control goes to the catch block
\* a plausible slip of ThrowToCatch: the failing step is attempted once more
\* before the failure is handed to the catch block
ThrowRetryingOnce(msg) ==
  /\ err' = msg
  /\ pc' = IF err = <<>> THEN pc ELSE "Catch"

ThrowToCatch(msg) ==
  /\ err' = msg
  /\ pc' = "Catch"

\* the state at the entry of run() in a scenario that differs from the
\* baseline in at most MaxDeviations of the first n fields
RunEntry(n) ==
  /\ \E chosen \in FieldChoices(1, n, MaxDeviations) : world \in Deviate(BaseWorld, chosen)
  /\ pc = "Start"
  /\ cmd = <<>>
  /\ flagList = <<>>
  /\ gcloudVersionRequired = <<>>
  /\ output = NoOutput
  /\ outputs = NoOutcome
  /\ err = <<>>
  /\ rejecting = FALSE
  /\ calls = <<>>
  /\ processEnv = [m \in MARKERS |-> world.markersBefore]
  /\ savedEnv = [m \in MARKERS |-> Undefined]

\* the scenarios in which the warning of lines 73-75 is emitted without error
RunInit == RunEntry(Len(FieldNames) - 1)

\* the state of run() while the parser is called on its own
RunIdle ==
  /\ world = BaseWorld
  /\ pc = "Idle"
  /\ cmd = <<>>
  /\ flagList = <<>>
  /\ gcloudVersionRequired = <<>>
  /\ output = NoOutput
  /\ outputs = NoOutcome
  /\ err = <<>>
  /\ rejecting = FALSE
  /\ calls = <<>>
  /\ processEnv = [m \in MARKERS |-> Undefined]
  /\ savedEnv = [m \in MARKERS |-> Undefined]

\* lines 67-70: stubEnv sets the telemetry markers and keeps the old values
StubEnv ==
  /\ pc = "Start"
  /\ savedEnv' = processEnv
  /\ processEnv' =
       [m \in MARKERS |->
          IF m = "CLOUDSDK_METRICS_ENVIRONMENT"
          THEN Str(T("github-actions-create-cloud-deploy-release"))
          ELSE Str(appVersion)]
  /\ calls' = Append(calls, Call("stubEnv", <<>>))
  /\ pc' = "WarnIfPinned"
  /\ UNCHANGED <<world, cmd, flagList, gcloudVersionRequired, output, outputs, err,
                 rejecting, otherVars>>

\* lines 73-75: the warning of a step pinned to HEAD, emitted before the try
\* block is entered: an error thrown here leaves run() at once
WarnIfPinned ==
  /\ pc = "WarnIfPinned"
  /\ calls' = IF world.pinnedToHead
              THEN Append(calls, Call("logWarning", <<T("pinned to HEAD")>>))
              ELSE calls
  /\ IF world.pinnedToHead /\ world.warningThrows
     THEN pc' = "Rejected" /\ rejecting' = TRUE
     ELSE pc' = "ReadInputs" /\ UNCHANGED rejecting
  /\ UNCHANGED <<world, cmd, flagList, gcloudVersionRequired, output, outputs, err,
                 processEnv, savedEnv, otherVars>>

\* lines 78-96: the inputs are read and decoded
ReadInputs ==
  /\ pc = "ReadInputs"
  /\ IF InputError(world) # <<>>
     THEN ThrowToCatch(InputError(world))
     ELSE pc' = "Validate" /\ UNCHANGED err
  /\ UNCHANGED <<world, cmd, flagList, gcloudVersionRequired, output, outputs,
                 rejecting, calls, processEnv, savedEnv, otherVars>>

\* lines 98-115: the checks of the inputs
Validate ==
  /\ pc = "Validate"
  /\ IF ValidationError(world) # <<>>
     THEN ThrowToCatch(ValidationError(world))
     ELSE pc' = "BuildCommand" /\ UNCHANGED err
  /\ UNCHANGED <<world, cmd, flagList, gcloudVersionRequired, output, outputs,
                 rejecting, calls, processEnv, savedEnv, otherVars>>

\* a plausible slip of WithFlagsAndFormat: the extra flags added last
WithFormatAndFlags(tokens, flags) == tokens \o <<T("--format"), T("json")>> \o flags

\* lines 163-171: cmd.concat(flagList), then cmd.push('--format', 'json')
WithFlagsAndFormat(tokens, flags) == tokens \o flags \o <<T("--format"), T("json")>>

\* lines 117-171: the argument list
BuildCommand ==
  /\ pc = "BuildCommand"
  /\ flagList' = IF world.flags # <<>> THEN parseFlags(world.flags) ELSE <<>>
  /\ cmd' = WithFlagsAndFormat(BuilderTokens(world), flagList')
  /\ calls' = IF world.region = <<>>
              THEN Append(calls, Call("logWarning", <<T("No region set")>>))
              ELSE calls
  /\ pc' = "ResolveVersion"
  /\ UNCHANGED <<world, gcloudVersionRequired, output, outputs, err, rejecting,
                 processEnv, savedEnv, otherVars>>

\* line 174: the version asked for, or the latest one
ResolveVersion ==
  /\ pc = "ResolveVersion"
  /\ IF world.gcloud_version # <<>>
     THEN /\ gcloudVersionRequired' = world.gcloud_version
          /\ pc' = "InstallGcloud"
          /\ UNCHANGED <<calls, err>>
     ELSE /\ calls' = Append(calls, Call("getLatestGcloudSDKVersion", <<>>))
          /\ IF world.latestThrows
             THEN /\ ThrowToCatch(MsgCollaborator \o T("getLatestGcloudSDKVersion"))
                  /\ UNCHANGED gcloudVersionRequired
             ELSE /\ gcloudVersionRequired' = latestVersion
                  /\ pc' = "InstallGcloud"
                  /\ UNCHANGED err
  /\ UNCHANGED <<world, cmd, flagList, output, outputs, rejecting, processEnv,
                 savedEnv, otherVars>>

\* a plausible slip of isGcloudInstalled: the cache never consulted
isGcloudInstalledNever(w, version) == FALSE

\* setup-cloud-sdk isInstalled(version): whether the version is in the tool cache
isGcloudInstalled(w, version) == w.isInstalled

\* lines 176-181: install gcloud, or put the cached one on the path
InstallGcloud ==
  /\ pc = "InstallGcloud"
  /\ LET asked == Append(calls, Call("isInstalled", <<gcloudVersionRequired>>))
     IN IF ~isGcloudInstalled(world, gcloudVersionRequired)
        THEN /\ calls' = Append(asked, Call("installGcloudSDK", <<gcloudVersionRequired>>))
             /\ IF world.installThrows
                THEN ThrowToCatch(MsgCollaborator \o T("installGcloudSDK"))
                ELSE pc' = "InstallComponent" /\ UNCHANGED err
        ELSE /\ calls' = asked \o <<Call("toolCache.find", <<T("gcloud"), gcloudVersionRequired>>),
                                    Call("addPath", <<T("bin")>>)>>
             /\ pc' = "InstallComponent"
             /\ UNCHANGED err
  /\ UNCHANGED <<world, cmd, flagList, gcloudVersionRequired, output, outputs,
                 rejecting, processEnv, savedEnv, otherVars>>

\* a plausible slip of Unshift: the token pushed at the end
UnshiftAsPush(c, token) == c \o <<token>>

\* cmd.unshift(token)
Unshift(c, token) == <<token>> \o c

\* lines 184-187: the component, installed and put in front of the command
InstallComponent ==
  /\ pc = "InstallComponent"
  /\ LET component == GcloudComponent(world)
     IN IF component.def
        THEN /\ calls' = Append(calls, Call("installComponent", <<component.text>>))
             /\ IF world.componentThrows
                THEN ThrowToCatch(MsgCollaborator \o T("installComponent")) /\ UNCHANGED cmd
                ELSE /\ cmd' = Unshift(cmd, component.text)
                     /\ pc' = "Authenticate"
                     /\ UNCHANGED err
        ELSE /\ pc' = "Authenticate"
             /\ UNCHANGED <<calls, cmd, err>>
  /\ UNCHANGED <<world, flagList, gcloudVersionRequired, output, outputs, rejecting,
                 processEnv, savedEnv, otherVars>>

\* a plausible slip of CredsPresent: authentication attempted in any case
CredsPresentAlways(credFile) == TRUE

\* line 191: if (credFile), credFile being process.env.GOOGLE_GHA_CREDS_PATH
CredsPresent(credFile) == credFile # <<>>

\* a plausible slip of Authenticate: a failed authentication downgraded to
\* the warning, and the run carried on
AuthenticateDowngrading ==
  /\ pc = "Authenticate"
  /\ calls' =
       IF CredsPresent(world.credFile) /\ ~world.authThrows
       THEN calls \o <<Call("authenticateGcloudSDK", <<world.credFile>>),
                       Call("logInfo", <<T("Successfully authenticated")>>)>>
       ELSE IF CredsPresent(world.credFile)
       THEN calls \o <<Call("authenticateGcloudSDK", <<world.credFile>>),
                       Call("logWarning", <<T("No authentication found")>>)>>
       ELSE Append(calls, Call("logWarning", <<T("No authentication found")>>))
  /\ pc' = "Execute"
  /\ UNCHANGED <<world, cmd, flagList, gcloudVersionRequired, output, outputs, err,
                 rejecting, processEnv, savedEnv, otherVars>>

\* lines 190-196: authentication with the credentials of google-github-actions/auth
Authenticate ==
  /\ pc = "Authenticate"
  /\ IF CredsPresent(world.credFile)
     THEN IF world.authThrows
          THEN /\ calls' = Append(calls, Call("authenticateGcloudSDK", <<world.credFile>>))
               /\ ThrowToCatch(MsgCollaborator \o T("authenticateGcloudSDK"))
          ELSE /\ calls' = calls \o <<Call("authenticateGcloudSDK", <<world.credFile>>),
                                      Call("logInfo", <<T("Successfully authenticated")>>)>>
               /\ pc' = "Execute"
               /\ UNCHANGED err
     ELSE /\ calls' = Append(calls, Call("logWarning", <<T("No authentication found")>>))
          /\ pc' = "Execute"
          /\ UNCHANGED err
  /\ UNCHANGED <<world, cmd, flagList, gcloudVersionRequired, output, outputs,
                 rejecting, processEnv, savedEnv, otherVars>>

\* `${toolCommand} ${cmd.join(' ')}`
CommandString(c) == toolCommand \o <<WS>> \o Join(c, <<WS>>)

\* a plausible slip of ExecErrMsg: no text for an empty stderr
ExecErrMsgStderrOnly(out) == out.stderr

\* output.stderr || `command exited ${output.exitCode}, but stderr had no output`
ExecErrMsg(out) ==
  IF out.stderr # <<>> THEN out.stderr
  ELSE <<"command exited ", ToString(out.exitCode), ", but stderr had no output">>

\* lines 198-208: the subprocess
Execute ==
  /\ pc = "Execute"
  /\ calls' = calls \o <<Call("logInfo", <<T("Running: ") \o CommandString(cmd)>>),
                         Call("getExecOutput", <<toolCommand>> \o cmd)>>
  /\ IF world.execThrows
     THEN ThrowToCatch(MsgCollaborator \o T("getExecOutput")) /\ UNCHANGED output
     ELSE /\ output' = [exitCode |-> world.exitCode, stdout |-> world.stdout,
                        stderr |-> world.stderr]
          /\ IF output'.exitCode # 0
             THEN ThrowToCatch(MsgExecFailed \o <<"'">> \o CommandString(cmd)
                                 \o <<"'", ": ">> \o ExecErrMsg(output'))
             ELSE pc' = "Parse" /\ UNCHANGED err
  /\ UNCHANGED <<world, cmd, flagList, gcloudVersionRequired, outputs, rejecting,
                 processEnv, savedEnv, otherVars>>

\* line 210: the response is parsed
Parse ==
  /\ pc = "Parse"
  /\ calls' = Append(calls, Call("parseCreateReleaseResponse", <<output.stdout>>))
  /\ \E parsed \in {parseCreateReleaseResponse(Str(output.stdout))} :
        IF parsed.threw
        THEN ThrowToCatch(parsed.msg) /\ UNCHANGED outputs
        ELSE /\ outputs' = parsed
             /\ pc' = "SetOutput"
             /\ UNCHANGED err
  /\ UNCHANGED <<world, cmd, flagList, gcloudVersionRequired, output, rejecting,
                 processEnv, savedEnv, otherVars>>

\* a plausible slip of OutputNames: the link never published
OutputNamesNameOnly == <<"name">>

\* lines 211-212: the outputs run() publishes, in order
OutputNames == <<"name", "link">>

\* the setOutput calls made so far
SetOutputCalls == {i \in 1..Len(calls) : calls[i].fn = "setOutput"}

\* lines 211-212: the next setOutput call
SetOutput ==
  /\ pc = "SetOutput"
  /\ LET key == OutputNames[Cardinality(SetOutputCalls) + 1]
     IN calls' = Append(calls, Call("setOutput",
                   <<T(key), IF key = "name" THEN outputs.name ELSE outputs.link>>))
  /\ pc' = IF Cardinality(SetOutputCalls) + 1 = Len(OutputNames) THEN "Finally" ELSE "SetOutput"
  /\ UNCHANGED <<world, cmd, flagList, gcloudVersionRequired, output, outputs, err,
                 rejecting, processEnv, savedEnv, otherVars>>

\* lines 213-215: the catch block; the unit tests make setFailed throw
Catch ==
  /\ pc = "Catch"
  /\ calls' = Append(calls, Call("setFailed", <<MsgFailedWith \o errorMessage(err)>>))
  /\ rejecting' = world.setFailedThrows
  /\ pc' = "Finally"
  /\ UNCHANGED <<world, cmd, flagList, gcloudVersionRequired, output, outputs, err,
                 processEnv, savedEnv, otherVars>>

\* lines 216-218: the finally block restores the environment; run() ends
Finally ==
  /\ pc = "Finally"
  /\ processEnv' = savedEnv
  /\ calls' = Append(calls, Call("restoreEnv", <<>>))
  /\ pc' = IF rejecting THEN "Rejected" ELSE "Done"
  /\ UNCHANGED <<world, cmd, flagList, gcloudVersionRequired, output, outputs, err,
                 rejecting, savedEnv, otherVars>>

Init ==
  /\ RunInit
  /\ pStdout = Undefined
  /\ pOutcome = NoOutcome
  /\ pCalled = FALSE
  /\ invocations = <<>>
  /\ pending = NoPending

Next ==
  \/ StubEnv
  \/ WarnIfPinned
  \/ ReadInputs
  \/ Validate
  \/ BuildCommand
  \/ ResolveVersion
  \/ InstallGcloud
  \/ InstallComponent
  \/ Authenticate
  \/ Execute
  \/ Parse
  \/ SetOutput
  \/ Catch
  \/ Finally

Spec == Init /\ [][Next]_vars

\* run() in all scenarios, those in which emitting the warning of lines 73-75
\* throws included
FaultInit ==
  /\ RunEntry(Len(FieldNames))
  /\ pStdout = Undefined
  /\ pOutcome = NoOutcome
  /\ pCalled = FALSE
  /\ invocations = <<>>
  /\ pending = NoPending

FaultSpec == FaultInit /\ [][Next]_vars

RunTypeOK ==
  /\ pc \in {"Start", "WarnIfPinned", "ReadInputs", "Validate", "BuildCommand",
             "ResolveVersion", "InstallGcloud", "InstallComponent", "Authenticate",
             "Execute", "Parse", "SetOutput", "Catch", "Finally", "Done", "Rejected"}
  /\ rejecting \in BOOLEAN
  /\ \A i \in 1..Len(calls) : calls[i].fn \in STRING

----------------------------------------------------------------------------
(* run() with its awaits.  An awaited call is made, settles (returns or     *)
(* throws) at some later moment, and run() is resumed with what it gave:    *)
(* the step of run() that holds the call is taken when it is resumed.       *)

\* the steps of run() that await a call in scenario w: lines 174, 177, 186,
\* 192 and 204
AwaitSteps(w) ==
  (IF w.gcloud_version = <<>> THEN {"ResolveVersion"} ELSE {})
    \cup (IF ~w.isInstalled THEN {"InstallGcloud"} ELSE {})
    \cup (IF GcloudComponent(w).def THEN {"InstallComponent"} ELSE {})
    \cup (IF CredsPresent(w.credFile) THEN {"Authenticate"} ELSE {})
    \cup {"Execute"}

\* a plausible slip of Awaited: the await left out, run() goes on once the
\* call is made
AwaitedOnceIssued(step) == step \in pending.issued

\* await: run() goes on when the call of the step has been made and settled
Awaited(step) == step \in pending.issued /\ step \notin pending.outstanding

\* the call of the step run() has arrived at is made
IssueCall ==
  /\ pc \in AwaitSteps(world)
  /\ pc \notin pending.issued
  /\ pending' = [issued |-> pending.issued \cup {pc},
                 outstanding |-> pending.outstanding \cup {pc}]
  /\ UNCHANGED <<runVars, parserVars, invocations>>

\* a call settles: the collaborator returns or throws
SettleCall ==
  /\ \E step \in pending.outstanding :
       pending' = [pending EXCEPT !.outstanding = @ \ {step}]
  /\ UNCHANGED <<runVars, parserVars, invocations>>

\* run() takes its next step; a step that awaits a call is taken when the
\* call has settled
ResumeRun ==
  /\ pc \in AwaitSteps(world) => Awaited(pc)
  /\ Next

AwaitNext == IssueCall \/ SettleCall \/ ResumeRun

\* run() can take a step: it has not ended and waits for no call
CanResume ==
  /\ pc \notin {"Done", "Rejected", "Idle"}
  /\ pc \in AwaitSteps(world) => Awaited(pc)

\* every call that was made settles (WF of SettleCall), and run() goes on
\* whenever it can: WF of IssueCall, and WF of ResumeRun written out, a step
\* of ResumeRun being a step that changes the state of run() and CanResume
\* its enabling condition
AwaitSpec ==
  /\ Init
  /\ [][AwaitNext]_vars
  /\ WF_vars(SettleCall)
  /\ WF_vars(IssueCall)
  /\ ([]<>(~CanResume) \/ []<>(<<runVars' # runVars>>_vars))

----------------------------------------------------------------------------
(* main.ts, the variant of run() in which the region is mandatory.  Its     *)
(* steps from the installation of gcloud on are those of run() above.       *)

MsgNoRegion == T("No region set.")

\* the truth value of an object, such as the mapping parseKVString returns
ObjectTruthy(m) == TRUE

\* the error thrown while the inputs are read, in source order, <<>> if none
VariantInputError(w) ==
  IF ~Images(w).ok THEN Images(w).msg
  ELSE IF ~DisableInitialRollout(w).ok THEN DisableInitialRollout(w).msg
  ELSE IF ~Annotations(w).ok THEN Annotations(w).msg
  ELSE IF ~Labels(w).ok THEN Labels(w).msg
  ELSE <<>>

\* computeGcloudVersion: whether the latest version is to be asked for
WantsLatest(str) == Trim(str) \in {<<>>, T("latest")}

\* !buildArtifacts && !images
VariantNeitherSupplied(buildArtifacts, images) ==
  buildArtifacts = <<>> /\ ~ObjectTruthy(images)

\* buildArtifacts && images && Object.keys(images).length > 0
VariantBothSupplied(buildArtifacts, images) ==
  buildArtifacts # <<>> /\ ObjectTruthy(images) /\ Len(images) > 0

\* the error thrown by the checks of the inputs, <<>> if none
VariantValidationError(w) ==
  IF w.name = <<>> THEN MsgNoReleaseName
  ELSE IF w.delivery_pipeline = <<>> THEN MsgNoDeliveryPipeline
  ELSE IF w.region = <<>> THEN MsgNoRegion
  ELSE IF VariantNeitherSupplied(w.build_artifacts, Images(w).map) THEN MsgNeither
  ELSE IF VariantBothSupplied(w.build_artifacts, Images(w).map) THEN MsgBoth
  ELSE IF InvalidComponent(GcloudComponent(w))
  THEN MsgInvalidComponent \o GcloudComponent(w).text
  ELSE <<>>

\* the tokens the variant builds before the extra flags
VariantBuilderTokens(w) ==
  <<T("deploy"), T("releases"), T("create"), w.name,
    T("--delivery-pipeline"), w.delivery_pipeline, T("--region"), w.region>>
    \o PushIf(w.build_artifacts # <<>>, <<T("--build-artifacts"), w.build_artifacts>>)
    \o PushIf(ObjectTruthy(Images(w).map) /\ Len(Images(w).map) > 0,
              <<T("--images"), joinKVString(Images(w).map)>>)
    \o PushIf(w.source # <<>>, <<T("--source"), w.source>>)
    \o PushIf(DisableInitialRollout(w).value, <<T("--disable-initial-rollout")>>)
    \o PushIf(w.gcs_source_staging_dir # <<>>,
              <<T("--gcs-source-staging-dir"), w.gcs_source_staging_dir>>)
    \o PushIf(w.skaffold_file # <<>>, <<T("--skaffold-file"), w.skaffold_file>>)
    \o PushIf(ObjectTruthy(Annotations(w).map),
              <<T("--annotations"), joinKVString(allAnnotations(w))>>)
    \o PushIf(ObjectTruthy(Labels(w).map), <<T("--labels"), joinKVString(allLabels(w))>>)
    \o PushIf(w.description # <<>>, <<T("--description"), w.description>>)

\* stubEnv, as in run() above
VariantStubEnv ==
  /\ pc = "VariantStart"
  /\ savedEnv' = processEnv
  /\ processEnv' =
       [m \in MARKERS |->
          IF m = "CLOUDSDK_METRICS_ENVIRONMENT"
          THEN Str(T("github-actions-create-cloud-deploy-release"))
          ELSE Str(appVersion)]
  /\ calls' = Append(calls, Call("stubEnv", <<>>))
  /\ pc' = "VariantWarnIfPinned"
  /\ UNCHANGED <<world, cmd, flagList, gcloudVersionRequired, output, outputs, err,
                 rejecting, otherVars>>

\* the warning of a step pinned to HEAD
VariantWarnIfPinned ==
  /\ pc = "VariantWarnIfPinned"
  /\ calls' = IF world.pinnedToHead
              THEN Append(calls, Call("logWarning", <<T("pinned to HEAD")>>))
              ELSE calls
  /\ pc' = "VariantReadInputs"
  /\ UNCHANGED <<world, cmd, flagList, gcloudVersionRequired, output, outputs, err,
                 rejecting, processEnv, savedEnv, otherVars>>

\* the inputs are read and decoded, and the gcloud version computed
VariantReadInputs ==
  /\ pc = "VariantReadInputs"
  /\ IF VariantInputError(world) # <<>>
     THEN /\ ThrowToCatch(VariantInputError(world))
          /\ UNCHANGED <<calls, gcloudVersionRequired>>
     ELSE IF WantsLatest(world.gcloud_version)
     THEN /\ calls' = Append(calls, Call("getLatestGcloudSDKVersion", <<>>))
          /\ IF world.latestThrows
             THEN /\ ThrowToCatch(MsgCollaborator \o T("getLatestGcloudSDKVersion"))
                  /\ UNCHANGED gcloudVersionRequired
             ELSE /\ gcloudVersionRequired' = latestVersion
                  /\ pc' = "VariantValidate"
                  /\ UNCHANGED err
     ELSE /\ gcloudVersionRequired' = Trim(world.gcloud_version)
          /\ pc' = "VariantValidate"
          /\ UNCHANGED <<calls, err>>
  /\ UNCHANGED <<world, cmd, flagList, output, outputs, rejecting, processEnv,
                 savedEnv, otherVars>>

\* the checks of the inputs
VariantValidate ==
  /\ pc = "VariantValidate"
  /\ IF VariantValidationError(world) # <<>>
     THEN ThrowToCatch(VariantValidationError(world))
     ELSE pc' = "VariantBuildCommand" /\ UNCHANGED err
  /\ UNCHANGED <<world, cmd, flagList, gcloudVersionRequired, output, outputs,
                 rejecting, calls, processEnv, savedEnv, otherVars>>

\* the argument list: the extra flags follow a --flags token
VariantBuildCommand ==
  /\ pc = "VariantBuildCommand"
  /\ flagList' = IF world.flags # <<>> THEN parseFlags(world.flags) ELSE <<>>
  /\ cmd' = VariantBuilderTokens(world)
              \o PushIf(world.flags # <<>>, <<T("--flags")>> \o flagList')
              \o <<T("--format"), T("json")>>
  /\ pc' = "InstallGcloud"
  /\ UNCHANGED <<world, gcloudVersionRequired, output, outputs, err, rejecting, calls,
                 processEnv, savedEnv, otherVars>>

VariantInit ==
  /\ \E chosen \in FieldChoices(1, Len(FieldNames) - 1, MaxDeviations) :
       world \in Deviate(BaseWorld, chosen)
  /\ pc = "VariantStart"
  /\ cmd = <<>>
  /\ flagList = <<>>
  /\ gcloudVersionRequired = <<>>
  /\ output = NoOutput
  /\ outputs = NoOutcome
  /\ err = <<>>
  /\ rejecting = FALSE
  /\ calls = <<>>
  /\ processEnv = [m \in MARKERS |-> world.markersBefore]
  /\ savedEnv = [m \in MARKERS |-> Undefined]
  /\ pStdout = Undefined
  /\ pOutcome = NoOutcome
  /\ pCalled = FALSE
  /\ invocations = <<>>
  /\ pending = NoPending

VariantNext ==
  \/ VariantStubEnv
  \/ VariantWarnIfPinned
  \/ VariantReadInputs
  \/ VariantValidate
  \/ VariantBuildCommand
  \/ InstallGcloud
  \/ InstallComponent
  \/ Authenticate
  \/ Execute
  \/ Parse
  \/ SetOutput
  \/ Catch
  \/ Finally

VariantSpec == VariantInit /\ [][VariantNext]_vars

----------------------------------------------------------------------------
(* Two invocations of run() in one process.  run() is an async function:    *)
(* it runs without interruption up to its first await, and another          *)
(* invocation can run only while it awaits.  Both invocations read the same *)
(* inputs and share process.env.                                            *)

RunIds == 1..2

\* the values stubEnv writes (lines 67-70)
StubbedEnv ==
  [m \in MARKERS |->
     IF m = "CLOUDSDK_METRICS_ENVIRONMENT"
     THEN Str(T("github-actions-create-cloud-deploy-release"))
     ELSE Str(appVersion)]

\* run() gets to an await (the latest at line 204) when no input fails to
\* decode and no check of lines 99-115 throws
ReachesAwait(w) == InputError(w) = <<>> /\ ValidationError(w) = <<>>

\* how many invocations have ended
EndedCount == Cardinality({j \in RunIds : invocations[j].pc = "Done"})

PairInit ==
  /\ \E chosen \in FieldChoices(1, Len(FieldNames) - 1, MaxDeviations) :
       world \in Deviate(BaseWorld, chosen)
  /\ pc = "Idle"
  /\ cmd = <<>>
  /\ flagList = <<>>
  /\ gcloudVersionRequired = <<>>
  /\ output = NoOutput
  /\ outputs = NoOutcome
  /\ err = <<>>
  /\ rejecting = FALSE
  /\ calls = <<>>
  /\ processEnv = [m \in MARKERS |-> world.markersBefore]
  /\ savedEnv = [m \in MARKERS |-> Undefined]
  /\ pStdout = Undefined
  /\ pOutcome = NoOutcome
  /\ pCalled = FALSE
  /\ invocations = [i \in RunIds |->
                      [pc |-> "Start", savedEnv |-> [m \in MARKERS |-> Undefined],
                       nested |-> FALSE, endedAs |-> 0]]
  /\ pending = NoPending

\* lines 66-204: invocation i runs from its entry to its first await; stubEnv
\* keeps the markers it finds.  A run that throws before any await goes
\* through catch and finally at once
PairEnter(i) ==
  /\ invocations[i].pc = "Start"
  /\ IF ReachesAwait(world)
     THEN /\ processEnv' = StubbedEnv
          /\ invocations' =
               [invocations EXCEPT ![i] =
                  [pc |-> "Awaiting", savedEnv |-> processEnv,
                   nested |-> \E j \in RunIds : invocations[j].pc = "Awaiting",
                   endedAs |-> 0]]
     ELSE /\ processEnv' = processEnv
          /\ invocations' =
               [invocations EXCEPT ![i] =
                  [pc |-> "Done", savedEnv |-> processEnv,
                   nested |-> \E j \in RunIds : invocations[j].pc = "Awaiting",
                   endedAs |-> EndedCount + 1]]
  /\ UNCHANGED <<world, pc, cmd, flagList, gcloudVersionRequired, output, outputs, err,
                 rejecting, calls, savedEnv, parserVars, pending>>

\* lines 204-218: invocation i is resumed and runs to its end; restoreEnv
\* writes back what its stubEnv kept
PairResume(i) ==
  /\ invocations[i].pc = "Awaiting"
  /\ processEnv' = invocations[i].savedEnv
  /\ invocations' = [invocations EXCEPT ![i].pc = "Done", ![i].endedAs = EndedCount + 1]
  /\ UNCHANGED <<world, pc, cmd, flagList, gcloudVersionRequired, output, outputs, err,
                 rejecting, calls, savedEnv, parserVars, pending>>

PairNext == \E i \in RunIds : PairEnter(i) \/ PairResume(i)

PairSpec == PairInit /\ [][PairNext]_vars

----------------------------------------------------------------------------
(* Parser harness *)

ParserInit ==
  /\ RunIdle
  /\ pStdout \in StdoutValues
  /\ pOutcome = NoOutcome
  /\ pCalled = FALSE
  /\ invocations = <<>>
  /\ pending = NoPending

\* the call parseCreateReleaseResponse(stdout)
ParseCall ==
  /\ ~pCalled
  /\ pOutcome' = parseCreateReleaseResponse(pStdout)
  /\ pCalled' = TRUE
  /\ UNCHANGED <<pStdout, runVars, invocations, pending>>

ParserNext == ParseCall

ParserSpec == ParserInit /\ [][ParserNext]_vars

ParserTypeOK ==
  /\ pCalled \in BOOLEAN
  /\ pOutcome.threw \in BOOLEAN
  /\ pOutcome.keys \subseteq {"name", "link"}

----------------------------------------------------------------------------
(* Properties of parseCreateReleaseResponse (specification ParserSpec) *)

Returned == pCalled /\ ~pOutcome.threw
Threw == pCalled /\ pOutcome.threw

\* the two layouts of a value, as stdout
Layouts(v) == {Str(Compact(v)), Str(Pretty(v))}

\* projects/P/locations/L/deliveryPipelines/D/releases/R
DocumentedName(P, L, D, R) ==
  <<"projects", SLASH>> \o P \o <<SLASH, "locations", SLASH>> \o L
    \o <<SLASH, "deliveryPipelines", SLASH>> \o D \o <<SLASH, "releases", SLASH>> \o R

\* C2: for every stdout that is a JSON object whose name is
\* projects/P/locations/L/deliveryPipelines/D/releases/R (8 fields; P, L, D
\* and R the fields at the zero-indexed positions 1, 3, 5, 7), the parser
\* returns exactly {name, link}, the name unchanged and the link
\* https://console.cloud.google.com/deploy/delivery-pipelines/L/D/releases/R?project=P
C2_LinkOfDocumentedName ==
  (pCalled /\ pStdout.def) =>
    LET parsed == JSONParse(Trim(pStdout.text))
        n == GetProp(parsed.val, NameKey)
        f == Split(n.str, SLASH)
    IN (/\ parsed.ok /\ parsed.val.type = "obj" /\ n.type = "str"
        /\ Len(f) = 8
        /\ n.str = DocumentedName(f[2], f[4], f[6], f[8])) =>
         /\ ~pOutcome.threw
         /\ pOutcome.keys = {"name", "link"}
         /\ pOutcome.name = n.str
         /\ pOutcome.link =
              <<"https://console.cloud.google.com/deploy/delivery-pipelines", SLASH>>
                \o f[4] \o <<SLASH>> \o f[6] \o <<SLASH, "releases", SLASH>> \o f[8]
                \o <<"?project=">> \o f[2]

\* C2 witness: an indented object with a documented name, whose project
\* and location differ, has been parsed
C2_Witness ==
  /\ pCalled
  /\ pStdout = Str(Pretty(RelObj(DocumentedName(AltField, <<"L">>, <<"D">>, <<"R">>))))

\* C3: for every stdout, undefined included, the parser throws or returns an
\* object with both a non-empty name and a link; never an empty or partial one
C3_NoPartialOutcome ==
  pCalled =>
    \/ pOutcome.threw /\ pOutcome.keys = {}
    \/ /\ ~pOutcome.threw
       /\ pOutcome.keys = {"name", "link"}
       /\ pOutcome.name # <<>>
       /\ pOutcome.link # <<>>

\* C3 witness: the parser has returned an outcome
C3_Witness == Returned /\ pStdout.def

\* C3, second witness state: the parser has thrown on an undefined stdout
C3_WitnessUndefined == Threw /\ ~pStdout.def

\* outcomes agree: both calls throw, or both return the same object
SameOutcome(a, b) == a.threw = b.threw /\ (~a.threw => a = b)

\* C5: parsing the text of a two-element array [r, x] whose first element r
\* is an object gives the outcome of parsing the text of r alone
C5_SecondElementIgnored ==
  (pCalled /\ pStdout.def) =>
    LET parsed == JSONParse(Trim(pStdout.text))
    IN (parsed.ok /\ parsed.val.type = "arr" /\ Len(parsed.val.elems) = 2
          /\ parsed.val.elems[1].type = "obj") =>
         \A alone \in Layouts(parsed.val.elems[1]) :
           SameOutcome(pOutcome, parseCreateReleaseResponse(alone))

\* C5 witness: a release followed by a rollout that has a name of its own has
\* been parsed, and an outcome returned
C5_Witness ==
  /\ Returned
  /\ pStdout = Str(Pretty(JArr(<<RelObj(CanonName), Rollout>>)))

\* the name the parser extracts from a stdout it can parse
ExtractedName(stdoutArg) ==
  LET stdout == presence(stdoutArg)
      parsed == JSONParse(stdout.text)
      release == ReleaseElement(parsed.val)
  IN IF stdout.def /\ ~IsNoOutput(stdout) /\ parsed.ok
          /\ release.type \notin {"undefined", "null"}
     THEN GetProp(release, NameKey)
     ELSE JUndefined

\* the message cites the unexpected format of name n
CitesUnexpectedFormat(outcome, n) ==
  /\ outcome.threw
  /\ outcome.keys = {}
  /\ Contains(outcome.msg, MsgNoName \o MsgUnexpectedFormat \o n)

\* C6 as stated: for every extracted name whose number of "/"-delimited
\* fields is not 8, the parser fails with "couldn't parse release name,
\* unexpected format: <name>" and returns no outcome
C6_AsStated ==
  pCalled =>
    LET name == ExtractedName(pStdout)
    IN (name.type = "str" /\ Len(Split(name.str, SLASH)) # 8) =>
         CitesUnexpectedFormat(pOutcome, name.str)

\* C6 amended: the same for every non-empty extracted name; the empty name
\* fails with "couldn't parse release name" and no "unexpected format"
C6_NonEmptyNameUnexpectedFormat ==
  pCalled =>
    LET name == ExtractedName(pStdout)
    IN /\ (name.type = "str" /\ name.str # <<>> /\ Len(Split(name.str, SLASH)) # 8) =>
            CitesUnexpectedFormat(pOutcome, name.str)
       /\ (name.type = "str" /\ name.str = <<>>) =>
            /\ pOutcome.threw
            /\ Contains(pOutcome.msg, MsgNoName)
            /\ ~Contains(pOutcome.msg, MsgUnexpectedFormat)

\* C6 witness: a name of nine fields has been refused
C6_Witness ==
  /\ Threw
  /\ ExtractedName(pStdout).type = "str"
  /\ Len(Split(ExtractedName(pStdout).str, SLASH)) = 9

\* the documented literals at the zero-indexed fields 0, 2, 4 and 6
HasDocumentedLiterals(fields) ==
  /\ fields[1] = <<"projects">>
  /\ fields[3] = <<"locations">>
  /\ fields[5] = <<"deliveryPipelines">>
  /\ fields[7] = <<"releases">>

\* C7 as stated: whenever the parser returns an outcome, the returned name
\* has 'projects', 'locations', 'deliveryPipelines' and 'releases' at the
\* zero-indexed fields 0, 2, 4 and 6
C7_AsStated ==
  Returned =>
    LET fields == Split(pOutcome.name, SLASH)
    IN Len(fields) = 8 /\ HasDocumentedLiterals(fields)

\* C7 amended: whenever the parser returns an outcome, the returned name has
\* exactly 8 "/"-delimited fields (whatever their texts)
C7_ReturnedNameHasEightFields ==
  Returned => Len(Split(pOutcome.name, SLASH)) = 8

\* C7 witness: an outcome has been returned for a name of 8 fields that
\* lacks a documented literal
C7_Witness ==
  /\ Returned
  /\ Len(Split(pOutcome.name, SLASH)) = 8
  /\ ~HasDocumentedLiterals(Split(pOutcome.name, SLASH))

\* the stdout is valid JSON that is not one of the no-output literals, and
\* its release element (element 0 of an array, or the value itself) is r
ReleaseElementOf(stdoutArg, r) ==
  LET stdout == presence(stdoutArg)
  IN /\ stdout.def
     /\ ~IsNoOutput(stdout)
     /\ JSONParse(stdout.text).ok
     /\ r = ReleaseElement(JSONParse(stdout.text).val)

\* the release element is nothing at all: undefined (no element 0) or null
Nullish(r) == r.type \in {"undefined", "null"}

\* the release element has no name: it is nothing at all, or its name
\* property is absent, null or the empty string
Nameless(r) ==
  \/ Nullish(r)
  \/ LET name == GetProp(r, NameKey)
     IN name.type \in {"undefined", "null"} \/ (name.type = "str" /\ name.str = <<>>)

\* C25 as stated: for every stdout that is valid JSON and whose release
\* element has no name, '[ ]', an array whose first element is null and the
\* value null included, the parser fails with a message containing
\* "couldn't parse release name"
C25_AsStated ==
  pCalled =>
    \A r \in {ReleaseElement(JSONParse(presence(pStdout).text).val)} :
      (ReleaseElementOf(pStdout, r) /\ Nameless(r)) =>
        (Threw /\ Contains(pOutcome.msg, MsgNoName))

\* what holds instead: a release element that is a value without a name is
\* refused with "couldn't parse release name"; a release element that is
\* undefined or null is refused with the wrapped message of the engine's
\* TypeError, which does not mention the release name
NamelessValueRefused ==
  pCalled =>
    \A r \in {ReleaseElement(JSONParse(presence(pStdout).text).val)} :
      (ReleaseElementOf(pStdout, r) /\ Nameless(r)) =>
        /\ Threw
        /\ Contains(pOutcome.msg, MsgParseWrap)
        /\ Contains(pOutcome.msg, MsgNoName) <=> ~Nullish(r)

\* '[ ]', [null] and null have been parsed
NullishReleaseParsed ==
  /\ Threw
  /\ pStdout \in {Str(<<"[", WS, "]">>), Str(Compact(JArr(<<JNull>>))), Str(Compact(JNull))}
  /\ ~Contains(pOutcome.msg, MsgNoName)

----------------------------------------------------------------------------
(* Properties of run() (specification Spec) *)

CallsOf(fn) == {i \in 1..Len(calls) : calls[i].fn = fn}
Called(fn) == CallsOf(fn) # {}

\* run() has finished: its promise is resolved or rejected
Ended == pc \in {"Done", "Rejected"}

\* setOutput has been called for the output key
Published(key) == \E i \in CallsOf("setOutput") : calls[i].args[1] = T(key)

\* setFailed has been called with a message holding the text
FailedWith(text) == \E i \in CallsOf("setFailed") : Contains(calls[i].args[1], text)

C1_WitnessSuccess == Ended /\ Published("name") /\ Published("link")

\* the stdout forms the parser takes for no output
NoOutputStdouts ==
  {Undefined, Str(<<>>), Str(<<WS>>), Str(<<WS, WS>>), Str(<<"{", "}">>),
   Str(<<WS, "{", "}", WS>>), Str(<<"[", "]">>), Str(<<"[", "]", WS>>)}

\* C4: on an undefined, empty or blank stdout, and on one that is {} or []
\* after trimming, the parser fails with 'no output from create release
\* command'; and a run whose tool exits 0 with such a stdout is reported
\* failed with that message and publishes no output
C4_NoOutputIsAFailure ==
  /\ \A s \in NoOutputStdouts :
       /\ parseCreateReleaseResponse(s).threw
       /\ Contains(parseCreateReleaseResponse(s).msg,
                   <<"no output from create release command">>)
  /\ (Called("parseCreateReleaseResponse") /\ Str(output.stdout) \in NoOutputStdouts) =>
       /\ pc \in {"Catch", "Finally", "Done", "Rejected"}
       /\ Contains(err, <<"no output from create release command">>)
       /\ ~Published("name") /\ ~Published("link")
       /\ pc # "Catch" => FailedWith(<<"no output from create release command">>)

\* C4 witness: the tool exited 0 with the stdout {} and the run has ended
\* reported failed
C4_Witness ==
  /\ Ended
  /\ Called("parseCreateReleaseResponse")
  /\ output.exitCode = 0
  /\ output.stdout = <<"{", "}">>
  /\ Called("setFailed")

\* the inputs run() decodes while reading them all decode
InputsDecode ==
  /\ world.disable_initial_rollout \in {T("true"), T("false")}
  /\ \A text \in {world.images, world.annotations, world.labels, world.deploy_parameters} :
       text # <<"malformed">>

\* images decodes to a mapping without entries, with entries
ImagesEmpty == world.images = <<>>
ImagesNonEmpty == world.images \notin {<<>>, <<"malformed">>}

ComponentRecognised == world.gcloud_component \in {<<>>, T("alpha"), T("beta")}

\* the rules of validation, in their order, on the raw inputs
Rule1Violated == world.name = <<>>
Rule2Violated == world.delivery_pipeline = <<>>
Rule3NeitherViolated == world.build_artifacts = <<>> /\ ImagesEmpty
Rule3BothViolated == world.build_artifacts # <<>> /\ ImagesNonEmpty
Rule4Violated == ~ComponentRecognised

C8_WitnessMalformed ==
  Ended /\ Rule1Violated /\ world.images = <<"malformed">> /\ Called("setFailed")

C9_WitnessNeither ==
  Ended /\ ~Rule1Violated /\ ~Rule2Violated /\ Rule3NeitherViolated /\ InputsDecode

\* the tokens of an executed argument list that the command builder emitted:
\* all but the tokens of the flags input, which sit before --format json
BuilderPositions(args) ==
  (1..Len(args)) \ ((Len(args) - 1 - Len(flagList))..(Len(args) - 2))

Occurrences(args, positions, token) == Cardinality({i \in positions : args[i] = token})

\* C10: every argument list passed to getExecOutput holds, among the tokens
\* the command builder emitted, exactly one of --build-artifacts and
\* --images: never both, never neither, neither twice
C10_ExactlyOneOfArtifactsAndImages ==
  \A c \in CallsOf("getExecOutput") :
    LET args == calls[c].args
        own == BuilderPositions(args)
    IN Occurrences(args, own, T("--build-artifacts"))
         + Occurrences(args, own, T("--images")) = 1

\* C10 witness: the tool was executed with --build-artifacts from the
\* build_artifacts input while the flags input carries an --images of its own
C10_Witness ==
  \E c \in CallsOf("getExecOutput") :
    /\ world.build_artifacts # <<>>
    /\ \E i \in 1..Len(flagList) : flagList[i] = T("--images")
    /\ Occurrences(calls[c].args, 1..Len(calls[c].args), T("--images")) = 1
    /\ Occurrences(calls[c].args, 1..Len(calls[c].args), T("--build-artifacts")) = 1

\* the argument lists passed to getExecOutput, the tool command left out
ExecutedLists == {Tail(calls[c].args) : c \in CallsOf("getExecOutput")}

\* C11: every argument list passed to getExecOutput ends with --format json,
\* whatever the flags input holds and whether or not a component was
\* put in front
C11_FormatJsonLast ==
  \A args \in ExecutedLists :
    /\ Len(args) >= 2
    /\ args[Len(args) - 1] = T("--format")
    /\ args[Len(args)] = T("json")

\* C11 witness: the tool was executed with a component in front and a flags
\* input that carries a --format of its own
C11_Witness ==
  \E args \in ExecutedLists :
    /\ args[1] \in {T("alpha"), T("beta")}
    /\ \E i \in 1..Len(flagList) : flagList[i] = T("--format")

\* C12: when gcloud_component is alpha or beta, a call of getExecOutput is
\* preceded by exactly one call of installComponent, made with that value,
\* and the executed argument list starts with the component followed by
\* deploy, releases, create; when gcloud_component is empty, installComponent
\* is never called and the executed list starts with deploy
C12_ComponentInstalledAndFirst ==
  /\ world.gcloud_component \in {T("alpha"), T("beta")} =>
        /\ Cardinality(CallsOf("installComponent")) <= 1
        /\ \A c \in CallsOf("getExecOutput") :
              /\ \E i \in CallsOf("installComponent") :
                    i < c /\ calls[i].args = <<world.gcloud_component>>
              /\ Cardinality(CallsOf("installComponent")) = 1
              /\ SubSeq(calls[c].args, 2, 5) =
                    <<world.gcloud_component, T("deploy"), T("releases"), T("create")>>
  /\ world.gcloud_component = <<>> =>
        /\ ~Called("installComponent")
        /\ \A args \in ExecutedLists : args[1] = T("deploy")

\* C12 witness: the tool was executed with the beta component
C12_Witness ==
  /\ world.gcloud_component = T("beta")
  /\ Called("getExecOutput")
  /\ Called("installComponent")

\* C12, second witness state: the tool was executed without a component
C12_WitnessNoComponent == world.gcloud_component = <<>> /\ Called("getExecOutput")

\* the flag occurs at one of the positions, immediately followed by the value
HasPair(args, positions, flag, value) ==
  \E i \in positions : i < Len(args) /\ args[i] = flag /\ args[i + 1] = value

\* the optional text inputs and their flags
OptionalFlags ==
  {<<"project_id", "--project">>, <<"region", "--region">>, <<"source", "--source">>,
   <<"gcs_source_staging_dir", "--gcs-source-staging-dir">>,
   <<"skaffold_file", "--skaffold-file">>, <<"description", "--description">>}

\* C13 as stated: the executed argument list holds each optional flag
\* immediately followed by the value of its input exactly when the input is
\* non-empty, deploy_parameters included, and --disable-initial-rollout
\* exactly when disable_initial_rollout is true
C13_AsStated ==
  \A c \in CallsOf("getExecOutput") :
    LET args == calls[c].args
        all == 1..Len(args)
    IN /\ \A f \in OptionalFlags :
            HasPair(args, all, T(f[2]), world[f[1]]) <=> world[f[1]] # <<>>
       /\ HasPair(args, all, T("--deploy-parameters"), world.deploy_parameters)
            <=> world.deploy_parameters # <<>>
       /\ Occurrences(args, all, T("--disable-initial-rollout")) > 0
            <=> world.disable_initial_rollout = T("true")

\* C13 amended: among the tokens the command builder emitted (those of the
\* flags input aside), each of --project, --region, --source,
\* --gcs-source-staging-dir, --skaffold-file and --description occurs, once
\* and immediately followed by the value of its input, exactly when the
\* input is non-empty; --deploy-parameters occurs exactly when the input
\* is non-empty, followed by the decoded mapping encoded again (a repeated
\* key kept once, with its last value); --disable-initial-rollout occurs,
\* once, exactly when disable_initial_rollout is true; with an empty region
\* the run goes on to execute the tool after a warning, without --region
C13_OptionalFlagsOfBuilder ==
  \A c \in CallsOf("getExecOutput") :
    LET args == calls[c].args
        own == BuilderPositions(args)
    IN /\ \A f \in OptionalFlags :
            /\ HasPair(args, own, T(f[2]), world[f[1]]) <=> world[f[1]] # <<>>
            /\ Occurrences(args, own, T(f[2])) = (IF world[f[1]] # <<>> THEN 1 ELSE 0)
       /\ Occurrences(args, own, T("--deploy-parameters"))
            = (IF world.deploy_parameters # <<>> THEN 1 ELSE 0)
       /\ world.deploy_parameters = <<"key1", EQ, "a", COMMA, "key1", EQ, "b">> =>
            HasPair(args, own, T("--deploy-parameters"), <<"key1", EQ, "b">>)
       /\ world.deploy_parameters \in
              {<<"key1", EQ, "value1">>, <<"key1", EQ, "value1", COMMA, "Key2", EQ, "Value2">>} =>
            HasPair(args, own, T("--deploy-parameters"), world.deploy_parameters)
       /\ Occurrences(args, own, T("--disable-initial-rollout"))
            = (IF world.disable_initial_rollout = T("true") THEN 1 ELSE 0)
       /\ world.region = <<>> =>
            \E i \in CallsOf("logWarning") : i < c /\ calls[i].args = <<T("No region set")>>

\* C13 witness: the tool was executed in a run with an empty region and a
\* project_id
C13_Witness ==
  Called("getExecOutput") /\ world.region = <<>> /\ world.project_id # <<>>

\* C13, second witness state: the tool was executed with deploy_parameters
\* that repeat a key
C13_WitnessRepeatedKey ==
  /\ Called("getExecOutput")
  /\ world.deploy_parameters = <<"key1", EQ, "a", COMMA, "key1", EQ, "b">>

\* the encoded defaults, written out
DefaultAnnotationsText ==
  <<"commit", EQ, "https:", SLASH, SLASH, "github.com", SLASH, "test-org", SLASH,
    "test-repo", SLASH, "commit", SLASH, "abcdef123456", COMMA, "git-sha", EQ, "abcdef123456">>
DefaultLabelsText == <<"managed-by", EQ, "github-actions">>

\* the defaults followed by the text of the input
DefaultsThen(defaults, text) ==
  IF text = <<>> THEN defaults ELSE defaults \o <<COMMA>> \o text

\* the inputs whose pairs have distinct keys, none of them a default key
PlainKVTexts ==
  {<<>>, <<"key1", EQ, "value1">>, <<"key1", EQ, "value1", COMMA, "Key2", EQ, "Value2">>}

\* C14 as stated: every executed argument list holds --annotations and
\* --labels, each followed by the encoded defaults and, after them, the
\* pairs the user supplied
C14_AsStated ==
  \A c \in CallsOf("getExecOutput") :
    LET args == calls[c].args
        own == BuilderPositions(args)
    IN /\ HasPair(args, own, T("--annotations"),
                  DefaultsThen(DefaultAnnotationsText, world.annotations))
       /\ HasPair(args, own, T("--labels"), DefaultsThen(DefaultLabelsText, world.labels))

\* C14 amended: every executed argument list holds, among the tokens of the
\* command builder, --annotations and --labels once each, each immediately
\* followed by one non-empty encoded string, also when the inputs are
\* empty; when the user's keys are distinct and none is a default key, the
\* string is the encoded defaults (commit, git-sha; managed-by) followed by
\* the user's pairs in their order; a user pair with a default key does not
\* come after the defaults but takes the place of the default
C14_DefaultsThenUserPairs ==
  \A c \in CallsOf("getExecOutput") :
    LET args == calls[c].args
        own == BuilderPositions(args)
    IN /\ Occurrences(args, own, T("--annotations")) = 1
       /\ Occurrences(args, own, T("--labels")) = 1
       /\ \A i \in own : args[i] \in {T("--annotations"), T("--labels")} =>
             i < Len(args) /\ args[i + 1] # <<>> /\ (i + 1) \in own
       /\ world.annotations \in PlainKVTexts =>
             HasPair(args, own, T("--annotations"),
                     DefaultsThen(DefaultAnnotationsText, world.annotations))
       /\ world.labels \in PlainKVTexts =>
             HasPair(args, own, T("--labels"), DefaultsThen(DefaultLabelsText, world.labels))
       /\ world.annotations = <<"commit", EQ, "mine">> =>
             HasPair(args, own, T("--annotations"),
                     <<"commit", EQ, "mine", COMMA, "git-sha", EQ, "abcdef123456">>)

\* C14 witness: the tool was executed with two user annotations and no
\* user label
C14_Witness ==
  /\ Called("getExecOutput")
  /\ world.annotations = <<"key1", EQ, "value1", COMMA, "Key2", EQ, "Value2">>
  /\ world.labels = <<>>

\* the k=v pieces of an encoded string, and the key of a piece
PiecesOf(encoded) == Split(encoded, COMMA)
KeyOf(piece) == SubSeq(piece, 1, FirstEq(piece) - 1)

\* no two pieces of the encoded string have the same key
KeysOnce(encoded) ==
  \A i, j \in 1..Len(PiecesOf(encoded)) :
    KeyOf(PiecesOf(encoded)[i]) = KeyOf(PiecesOf(encoded)[j]) => i = j

\* the encoded string holds the pair
HasPiece(encoded, pair) == \E i \in 1..Len(PiecesOf(encoded)) : PiecesOf(encoded)[i] = pair

\* the tokens that follow the flag among the tokens of the command builder
ValuesOf(args, flag) ==
  {args[i + 1] : i \in {j \in BuilderPositions(args) : j < Len(args) /\ args[j] = flag}}

\* C15: in every executed argument list no key appears twice in the encoded
\* --annotations or --labels value, and a user-supplied annotation or label
\* with a default key (commit, managed-by) appears with the user's value
C15_UserOverridesDefault ==
  \A c \in CallsOf("getExecOutput") :
    LET args == calls[c].args
    IN /\ \A e \in ValuesOf(args, T("--annotations")) \cup ValuesOf(args, T("--labels")) :
             KeysOnce(e)
       /\ world.annotations = <<"commit", EQ, "mine">> =>
             \A e \in ValuesOf(args, T("--annotations")) :
               HasPiece(e, <<"commit", EQ, "mine">>)
       /\ world.labels = <<"managed-by", EQ, "Me">> =>
             \A e \in ValuesOf(args, T("--labels")) :
               HasPiece(e, <<"managed-by", EQ, "Me">>)
       /\ ValuesOf(args, T("--annotations")) # {}
       /\ ValuesOf(args, T("--labels")) # {}

\* C15 witness: the tool was executed with a user label managed-by
C15_Witness ==
  Called("getExecOutput") /\ world.labels = <<"managed-by", EQ, "Me">>

\* C15, second witness state: the tool was executed with a user annotation
\* commit and user labels that repeat a key
C15_WitnessRepeatedKey ==
  /\ Called("getExecOutput")
  /\ world.annotations = <<"commit", EQ, "mine">>
  /\ world.labels = <<"key1", EQ, "a", COMMA, "key1", EQ, "b">>

\* the atoms of the label inputs that hold a capital letter
CapitalisedAtoms == {"Key2", "Value2", "Me"}

\* the text holds a capital letter
HasCapital(text) == \E i \in 1..Len(text) : text[i] \in CapitalisedAtoms

\* C16 as stated: in every executed argument list every key and every value
\* of the encoded --labels string is lower-case, whatever casing the labels
\* input has
C16_AsStated ==
  \A c \in CallsOf("getExecOutput") :
    \A e \in ValuesOf(calls[c].args, T("--labels")) : ~HasCapital(e)

\* C17: when getExecOutput returns a non-zero exit code, the parser is never
\* called and no output is published, also when stdout holds a valid
\* release; the run is reported failed with a message that holds 'failed to
\* execute gcloud command', the tool command and all argument tokens joined
\* by spaces, and the stderr, or 'command exited <code>, but stderr had no
\* output' when stderr is empty
C17_NonZeroExitIsAFailure ==
  (Called("getExecOutput") /\ output.exitCode # 0) =>
    /\ pc \in {"Catch", "Finally", "Done", "Rejected"}
    /\ ~Called("parseCreateReleaseResponse")
    /\ ~Published("name") /\ ~Published("link")
    /\ pc # "Catch" =>
         /\ FailedWith(<<"failed to execute gcloud command ">>)
         /\ \A c \in CallsOf("getExecOutput") :
               /\ calls[c].args[1] = <<"gcloud">>
               /\ FailedWith(Join(calls[c].args, <<WS>>))
         /\ output.stderr # <<>> => FailedWith(output.stderr)
         /\ output.stderr = <<>> =>
               FailedWith(<<"command exited ", "1", ", but stderr had no output">>)

\* C17 witness: the tool exited 1 with an empty stderr and a stdout that
\* holds a valid release, and the run has ended
C17_Witness ==
  /\ Ended
  /\ Called("getExecOutput")
  /\ output.exitCode = 1
  /\ output.stderr = <<>>
  /\ output.stdout = ValidStdout

\* C17, second witness state: the tool exited 1 with a stderr, and the run
\* has ended
C17_WitnessStderr ==
  Ended /\ Called("getExecOutput") /\ output.exitCode = 1 /\ output.stderr # <<>>

\* the messages reported by setFailed so far
FailureMessages == {calls[i].args[1] : i \in CallsOf("setFailed")}

CapitalStarts ==
  [a \in {"No release name set.", "No delivery pipeline set.",
          "One of 'build_artifacts' and 'images' inputs must be supplied.",
          "Both 'build_artifacts' and 'images' inputs set - please select only one.",
          "Failed to parse KEY=VALUE pair: ",
          "Input does not meet YAML 1.2 Core Schema specification: "} |->
     CASE a = "No release name set." -> "no release name set."
       [] a = "No delivery pipeline set." -> "no delivery pipeline set."
       [] a = "One of 'build_artifacts' and 'images' inputs must be supplied." ->
            "one of 'build_artifacts' and 'images' inputs must be supplied."
       [] a = "Both 'build_artifacts' and 'images' inputs set - please select only one." ->
            "both 'build_artifacts' and 'images' inputs set - please select only one."
       [] a = "Failed to parse KEY=VALUE pair: " -> "failed to parse KEY=VALUE pair: "
       [] OTHER -> "input does not meet YAML 1.2 Core Schema specification: "]

C18_WitnessValidation == Ended /\ err = <<"No release name set.">>

\* C18, third witness state: a run in which no step failed has ended
C18_WitnessSuccess == Ended /\ err = <<>> /\ Published("link")

\* the inputs pass validation
PassesValidation ==
  /\ InputsDecode
  /\ ~Rule1Violated /\ ~Rule2Violated
  /\ ~Rule3NeitherViolated /\ ~Rule3BothViolated
  /\ ~Rule4Violated

\* installGcloudSDK called once, the cache not used
InstallBranch ==
  /\ Cardinality(CallsOf("installGcloudSDK")) = 1
  /\ ~Called("toolCache.find") /\ ~Called("addPath")

\* the cached installation of the version asked about looked up and its bin
\* directory added to the path, once each; installGcloudSDK not called
CacheBranch ==
  /\ ~Called("installGcloudSDK")
  /\ Cardinality(CallsOf("toolCache.find")) = 1
  /\ Cardinality(CallsOf("addPath")) = 1
  /\ \A f \in CallsOf("toolCache.find") : \A a \in CallsOf("addPath") :
        \E q \in CallsOf("isInstalled") :
          /\ q < f /\ f < a
          /\ calls[f].args = <<T("gcloud")>> \o calls[q].args
          /\ world.gcloud_version # <<>> => calls[q].args = <<world.gcloud_version>>

\* C20 as stated: every run that passes validation takes exactly one of the
\* two branches: installGcloudSDK once when isInstalled is false, the cache
\* lookup and the path update once when it is true
C20_AsStated ==
  (Ended /\ PassesValidation) =>
    /\ ~world.isInstalled => InstallBranch
    /\ world.isInstalled => CacheBranch

\* the version to install is known: given, or looked up without error
VersionResolved == world.gcloud_version # <<>> \/ ~world.latestThrows

\* C20 amended: every run that passes validation and resolves the version
\* (gcloud_version given, or getLatestGcloudSDKVersion without error) takes
\* exactly one of the two branches: installGcloudSDK once and no cache
\* lookup when isInstalled(version) is false; the cache lookup for the same
\* version and the path update once each, and no installGcloudSDK, when it
\* is true.  A run in which the version lookup fails takes neither.
C20_InstallOrCache ==
  /\ (Ended /\ PassesValidation /\ VersionResolved) =>
        /\ Cardinality(CallsOf("isInstalled")) = 1
        /\ ~world.isInstalled => InstallBranch
        /\ world.isInstalled => CacheBranch
  /\ (Ended /\ ~(PassesValidation /\ VersionResolved)) =>
        /\ ~Called("installGcloudSDK")
        /\ ~Called("toolCache.find") /\ ~Called("addPath")

\* C20 witness: a run in which gcloud was not installed and its
\* installation failed has ended
C20_Witness ==
  Ended /\ PassesValidation /\ ~world.isInstalled /\ world.installThrows
    /\ Called("installGcloudSDK")

\* C20, second witness state: a run that used the cached installation of a
\* given version has ended
C20_WitnessCache ==
  Ended /\ world.gcloud_version = T("1.2.3") /\ Called("addPath")


\* the versions passed to isInstalled, installGcloudSDK and the cache lookup
VersionsUsed ==
  {calls[i].args[1] : i \in CallsOf("isInstalled") \cup CallsOf("installGcloudSDK")}
    \cup {calls[i].args[2] : i \in CallsOf("toolCache.find")}

\* C21 as stated: with gcloud_version empty or 'latest' the version passed to
\* isInstalled, installGcloudSDK and the cache lookup is the one
\* getLatestGcloudSDKVersion returned; with any other version that string is
\* used unchanged and getLatestGcloudSDKVersion is never called
C21_AsStated ==
  /\ world.gcloud_version \in {<<>>, <<"latest">>} => VersionsUsed \subseteq {<<"999.0.0">>}
  /\ world.gcloud_version \notin {<<>>, <<"latest">>} =>
       /\ VersionsUsed \subseteq {world.gcloud_version}
       /\ ~Called("getLatestGcloudSDKVersion")

\* what holds of C21: with an empty gcloud_version the version used is the one
\* getLatestGcloudSDKVersion returned; every non-empty gcloud_version, 'latest'
\* included, is used unchanged and getLatestGcloudSDKVersion is never called
VersionUsedAsGiven ==
  /\ world.gcloud_version = <<>> => VersionsUsed \subseteq {<<"999.0.0">>}
  /\ world.gcloud_version # <<>> =>
       /\ VersionsUsed \subseteq {world.gcloud_version}
       /\ ~Called("getLatestGcloudSDKVersion")

\* a run with gcloud_version 'latest' has asked whether 'latest' is installed
LatestUsedLiterally ==
  world.gcloud_version = <<"latest">> /\ <<"latest">> \in VersionsUsed

\* the calls of the function made with exactly these arguments
CallsWith(fn, args) == {i \in CallsOf(fn) : calls[i].args = args}

\* C22: when GOOGLE_GHA_CREDS_PATH is set, authenticateGcloudSDK is called
\* at most once, with that path, and a call of getExecOutput comes after
\* that call and the log of its success; when it is not set,
\* authenticateGcloudSDK is never called, a call of getExecOutput comes
\* after the warning, and the warning is followed by the execution step,
\* not by a failure
C22_AuthenticateBeforeExecute ==
  /\ world.credFile # <<>> =>
       /\ Cardinality(CallsOf("authenticateGcloudSDK")) <= 1
       /\ \A i \in CallsOf("authenticateGcloudSDK") : calls[i].args = <<world.credFile>>
       /\ \A c \in CallsOf("getExecOutput") :
            \E i \in CallsOf("authenticateGcloudSDK") :
              \E l \in CallsWith("logInfo", <<T("Successfully authenticated")>>) :
                i < l /\ l < c
       /\ CallsWith("logWarning", <<T("No authentication found")>>) = {}
  /\ world.credFile = <<>> =>
       /\ ~Called("authenticateGcloudSDK")
       /\ \A c \in CallsOf("getExecOutput") :
            \E i \in CallsWith("logWarning", <<T("No authentication found")>>) : i < c
       /\ CallsWith("logWarning", <<T("No authentication found")>>) # {} =>
            (pc = "Execute" \/ Called("getExecOutput"))

\* C22 witness: the tool was executed after an authentication with the
\* credentials file
C22_Witness ==
  /\ world.credFile # <<>>
  /\ Called("authenticateGcloudSDK")
  /\ Called("getExecOutput")

\* C22, second witness state: the tool was executed without credentials and
\* the run has ended with its outputs
C22_WitnessNoCredentials ==
  Ended /\ world.credFile = <<>> /\ Called("getExecOutput") /\ Published("link")

\* the collaborators of the steps of run(), step by step
ResolvingCalls ==
  {"getLatestGcloudSDKVersion", "isInstalled", "installGcloudSDK", "toolCache.find",
   "addPath", "installComponent"}
AuthenticatingCalls == {"authenticateGcloudSDK"}
ExecutingCalls == {"getExecOutput"}
ParsingCalls == {"parseCreateReleaseResponse"}
PublishingCalls == {"setOutput"}

\* every call of a function of the first set comes after every call of a
\* function of the second
AllAfter(later, earlier) ==
  \A i, j \in 1..Len(calls) :
    (calls[i].fn \in later /\ calls[j].fn \in earlier) => j < i

\* the order of the steps, as the calls made so far show it
StepsInOrder ==
  /\ (\E i \in 1..Len(calls) : calls[i].fn \in ResolvingCalls) => PassesValidation
  /\ AllAfter(AuthenticatingCalls, ResolvingCalls)
  /\ \A i \in CallsOf("authenticateGcloudSDK") :
       /\ Called("isInstalled")
       /\ Called("installGcloudSDK") \/ Called("addPath")
       /\ world.gcloud_component # <<>> => Called("installComponent")
  /\ AllAfter(ExecutingCalls, AuthenticatingCalls \cup ResolvingCalls)
  /\ \A c \in CallsOf("getExecOutput") :
       \E i \in 1..(c - 1) :
         \/ calls[i].fn = "authenticateGcloudSDK"
         \/ calls[i] = Call("logWarning", <<T("No authentication found")>>)
  /\ \A p \in CallsOf("parseCreateReleaseResponse") :
       /\ \E c \in CallsOf("getExecOutput") : c < p
       /\ output.exitCode = 0
       /\ ~world.execThrows
  /\ \A s \in CallsOf("setOutput") :
       /\ \E p \in CallsOf("parseCreateReleaseResponse") : p < s
       /\ ~outputs.threw /\ outputs.keys = {"name", "link"}
       /\ err = <<>>

\* a step taken after a step has failed calls nothing but setFailed and the
\* environment restore
NothingAfterFailure ==
  err # <<>> =>
    /\ Len(calls') >= Len(calls)
    /\ \A i \in (Len(calls) + 1)..Len(calls') : calls'[i].fn \in {"setFailed", "restoreEnv"}

\* C23: the calls of every run follow the order validation, tool resolution,
\* authentication, execution, parsing, publication of the outputs: no
\* version resolution, installation, cache lookup or component installation
\* before all validation rules have passed; no authentication before tool
\* resolution and component installation are done; no getExecOutput before
\* the authentication step; no parser call before getExecOutput returned exit
\* code 0; no setOutput before the parser returned; and once a step has
\* failed no collaborator of a later step is called
C23_StepsInOrder == [](StepsInOrder) /\ [][NothingAfterFailure]_vars

\* C23 witness: a run that installed a component and authenticated has
\* ended with its outputs published
C23_Witness ==
  /\ Ended
  /\ Called("installComponent")
  /\ Called("authenticateGcloudSDK")
  /\ Called("getExecOutput")
  /\ Called("parseCreateReleaseResponse")
  /\ Published("link")

\* C23, second witness state: a run whose authentication failed has ended
C23_WitnessFailure ==
  Ended /\ world.authThrows /\ Called("authenticateGcloudSDK") /\ Called("setFailed")

\* C24: in every run getExecOutput is called at most once and the parser at
\* most once; after a failed subprocess call, a failed parse or a failed
\* validation nothing is attempted again and the failure is reported once
C24_NothingReattempted ==
  /\ Cardinality(CallsOf("getExecOutput")) <= 1
  /\ Cardinality(CallsOf("parseCreateReleaseResponse")) <= 1
  /\ Cardinality(CallsOf("setFailed")) <= 1
  /\ \A fn \in ResolvingCalls \cup AuthenticatingCalls : Cardinality(CallsOf(fn)) <= 1
  /\ (Ended /\ err # <<>>) =>
       /\ Cardinality(CallsOf("setFailed")) = 1
       /\ calls[Len(calls) - 1].fn = "setFailed"
       /\ ~Called("setOutput")

\* C24 witness: a run whose subprocess call failed has ended
C24_Witness ==
  /\ Ended
  /\ Called("getExecOutput")
  /\ ~world.execThrows /\ output.exitCode # 0
  /\ Called("setFailed")

\* C24, further witness states: a failed parse and a failed validation
C24_WitnessParse == Ended /\ Called("parseCreateReleaseResponse") /\ Called("setFailed")
C24_WitnessValidation == Ended /\ ~PassesValidation /\ InputsDecode /\ Called("setFailed")

\* the fixed order of the builder's tokens: each slot a token, and whether a
\* value token follows it (create is followed by the release name)
Slot(tok, valued) == [tok |-> tok, valued |-> valued]
FixedOrder(component) ==
  <<Slot(component, FALSE), Slot(T("deploy"), FALSE), Slot(T("releases"), FALSE),
    Slot(T("create"), TRUE), Slot(T("--delivery-pipeline"), TRUE),
    Slot(T("--project"), TRUE), Slot(T("--region"), TRUE),
    Slot(T("--build-artifacts"), TRUE), Slot(T("--images"), TRUE),
    Slot(T("--source"), TRUE), Slot(T("--disable-initial-rollout"), FALSE),
    Slot(T("--gcs-source-staging-dir"), TRUE), Slot(T("--skaffold-file"), TRUE),
    Slot(T("--deploy-parameters"), TRUE), Slot(T("--annotations"), TRUE),
    Slot(T("--labels"), TRUE), Slot(T("--description"), TRUE)>>

SlotTokens(order) == {order[k].tok : k \in 1..Len(order)}

RECURSIVE FollowsOrder(_, _, _, _)
\* the tokens of args from position i on are tokens of the slots k, k+1, ...
\* of the order, in that order, each valued one immediately followed by a
\* token that is no slot token
FollowsOrder(args, i, order, k) ==
  IF i > Len(args) THEN TRUE
  ELSE IF k > Len(order) THEN FALSE
  ELSE \/ FollowsOrder(args, i, order, k + 1)
       \/ /\ args[i] = order[k].tok
          /\ IF order[k].valued
             THEN /\ i + 1 <= Len(args)
                  /\ args[i + 1] \notin SlotTokens(order)
                  /\ FollowsOrder(args, i + 2, order, k + 1)
             ELSE FollowsOrder(args, i + 1, order, k + 1)

\* the argument list the inputs and the CI context determine
ArgsOf(w) ==
  LET built == BuilderTokens(w) \o parseFlags(w.flags) \o <<T("--format"), T("json")>>
  IN IF w.gcloud_component # <<>> THEN <<w.gcloud_component>> \o built ELSE built

\* C26: in every executed argument list the builder's tokens appear in the
\* order [component,] deploy, releases, create, <name>, --delivery-pipeline,
\* --project, --region, --build-artifacts or --images, --source,
\* --disable-initial-rollout, --gcs-source-staging-dir, --skaffold-file,
\* --deploy-parameters, --annotations, --labels, --description, the parsed
\* extra flags, --format; every flag that takes a value is immediately
\* followed by its value token; and the list is determined by the inputs and
\* the CI context alone
C26_FixedTokenOrder ==
  \A args \in ExecutedLists :
    LET own == Len(args) - Len(flagList) - 2
    IN /\ own >= 0
       /\ FollowsOrder(SubSeq(args, 1, own), 1, FixedOrder(world.gcloud_component), 1)
       /\ SubSeq(args, own + 1, own + Len(flagList)) = flagList
       /\ SubSeq(args, own + Len(flagList) + 1, Len(args)) = <<T("--format"), T("json")>>
       /\ args = ArgsOf(world)

\* C26 witness: the tool was executed with a component in front, extra flags
\* and every slot between them taken by some run
C26_Witness ==
  /\ world.gcloud_component # <<>>
  /\ flagList # <<>>
  /\ ExecutedLists # {}

\* C26, further witness state: an executed list with a description and
\* --disable-initial-rollout
C26_WitnessOptional ==
  \E args \in ExecutedLists :
    /\ \E i \in 1..Len(args) : args[i] = T("--description")
    /\ \E i \in 1..Len(args) : args[i] = T("--disable-initial-rollout")

\* C29: when GOOGLE_GHA_CREDS_PATH is set and authenticateGcloudSDK throws,
\* the run is reported failed with the authentication error, 'Successfully
\* authenticated' is not logged, getExecOutput is never called and no output
\* is published; the warning of missing credentials is logged only when the
\* credentials are absent
C29_FailedAuthenticationFailsTheRun ==
  /\ (world.credFile # <<>> /\ world.authThrows /\ Called("authenticateGcloudSDK")) =>
       /\ CallsWith("logInfo", <<T("Successfully authenticated")>>) = {}
       /\ ~Called("getExecOutput")
       /\ ~Called("parseCreateReleaseResponse")
       /\ ~Called("setOutput")
       /\ err = MsgCollaborator \o T("authenticateGcloudSDK")
       /\ pc \in {"Catch", "Finally", "Done", "Rejected"}
       /\ pc # "Catch" =>
            CallsWith("setFailed", <<MsgFailedWith \o errorMessage(err)>>) # {}
  /\ CallsWith("logWarning", <<T("No authentication found")>>) # {} => world.credFile = <<>>

\* C29 witness: a run with credentials whose authentication threw has ended
\* reported failed
C29_Witness ==
  /\ Ended
  /\ world.credFile # <<>>
  /\ world.authThrows
  /\ CallsWith("authenticateGcloudSDK", <<world.credFile>>) # {}
  /\ FailedWith(T("authenticateGcloudSDK"))

----------------------------------------------------------------------------
(* Properties of run() with its awaits (specification AwaitSpec) *)

\* the run has reached its result: both outputs published, or setFailed called
ResultReached == (Published("name") /\ Published("link")) \/ Called("setFailed")

\* a step taken once the result is reached makes no call, awaited or not,
\* but the environment restore
OnlyRestoreAfterResult ==
  ResultReached =>
    /\ pending' = pending
    /\ Len(calls') >= Len(calls)
    /\ \A i \in (Len(calls) + 1)..Len(calls') : calls'[i].fn = "restoreEnv"

StepOnlyWhenCan == [][(runVars' # runVars) => CanResume]_vars

C30_WitnessOutstanding == pending.outstanding = {"Execute"}

----------------------------------------------------------------------------
(* Properties of run() when the warning may throw (specification FaultSpec) *)

\* both telemetry markers have the values they had before run()
MarkersRestored == processEnv = [m \in MARKERS |-> world.markersBefore]

\* C19 as stated: on every exit path of run() after the telemetry markers
\* have been set (success, a failing step, a throwing setFailed, a throw
\* while the pinned-to-HEAD warning is emitted) the restore function has
\* been called when run() finishes and both markers have their pre-run values
C19_AsStated ==
  (Ended /\ Called("stubEnv")) => (Called("restoreEnv") /\ MarkersRestored)

\* what holds of C19: on every exit path that entered the try block the
\* restore function has been called once and both markers have their
\* pre-run values
RestoredOnceTryEntered ==
  (Ended /\ ~(world.pinnedToHead /\ world.warningThrows)) =>
    /\ Cardinality(CallsOf("restoreEnv")) = 1
    /\ MarkersRestored

\* a run in which setFailed threw has ended with the markers restored
RestoredAfterThrowingSetFailed ==
  pc = "Rejected" /\ Called("setFailed") /\ Called("restoreEnv") /\ MarkersRestored

----------------------------------------------------------------------------
(* Properties of the mandatory-region variant (specification VariantSpec) *)

\* name, delivery_pipeline and region are non-empty, build_artifacts and
\* images are empty
NeitherInputGiven ==
  /\ world.name # <<>> /\ world.delivery_pipeline # <<>> /\ world.region # <<>>
  /\ world.build_artifacts = <<>> /\ world.images = <<>>

\* C27 as stated: in the mandatory-region variant, when name,
\* delivery_pipeline and region are non-empty and both build_artifacts and
\* images are empty, the run fails with a message containing 'One of
\* 'build_artifacts' and 'images' inputs must be supplied.' and the external
\* tool is never executed
C27_AsStated ==
  NeitherInputGiven =>
    /\ ~Called("getExecOutput")
    /\ Ended =>
         FailedWith(<<"One of 'build_artifacts' and 'images' inputs must be supplied.">>)

\* what the variant does instead: the check of the two inputs never fails a
\* run, whatever the letter case of the reported message
NeitherRuleNeverFails ==
  /\ ~FailedWith(MsgNeither)
  /\ ~FailedWith(errorMessage(MsgNeither))
  /\ err # MsgNeither

\* the tool has been executed without --build-artifacts and without --images
ExecutedWithNeither ==
  /\ NeitherInputGiven
  /\ \E args \in ExecutedLists :
       \A i \in 1..Len(args) : args[i] \notin {T("--build-artifacts"), T("--images")}

----------------------------------------------------------------------------
(* Properties of two overlapping invocations (specification PairSpec) *)

BothEnded == \A i \in RunIds : invocations[i].pc = "Done"

\* one invocation set the markers before the other had restored them
Overlapped == \E i \in RunIds : invocations[i].nested

\* the markers have the values they had before the first invocation started
MarkersAsBefore == processEnv = [m \in MARKERS |-> world.markersBefore]

\* C28 as stated: when two invocations of run() overlap (the second sets the
\* markers before the first has restored them) and end in either order, then
\* after both have ended the two markers have the values they had before the
\* first one started
C28_AsStated == (BothEnded /\ Overlapped) => MarkersAsBefore

\* what holds instead: the markers are as before when the invocation that
\* started second ends first; when it ends last, it writes back the values
\* the first invocation had set
RestoredWhenEndedInReverse ==
  (BothEnded /\ Overlapped) =>
    \A i \in RunIds :
      invocations[i].nested =>
        /\ invocations[i].endedAs = 1 => MarkersAsBefore
        /\ invocations[i].endedAs = 2 => processEnv = StubbedEnv

\* invocations that do not overlap leave the markers as they were
RestoredWithoutOverlap == (BothEnded /\ ~Overlapped) => MarkersAsBefore

\* the markers of the first invocation have been left behind
MarkersLeftBehind == BothEnded /\ Overlapped /\ ~MarkersAsBefore

====
